---- MODULE Spec2Model ----
(***************************************************************************)
(* Model of mod-manager (Lucki/mod-manager, Rust).                         *)
(*                                                                         *)
(* Two parts share this module:                                            *)
(*  - the overlay mount state machine: Overlay (src/src/overlay.rs) and    *)
(*    Game::activate / Game::deactivate (src/src/game.rs), over an         *)
(*    abstract file system (original path, shadow path, mount table);      *)
(*  - the mod-set resolution engine: ModSet::from_config and               *)
(*    ModSet::get_mount_string (src/src/mod_set.rs), over bounded game     *)
(*    configurations.                                                      *)
(***************************************************************************)
EXTENDS Integers, Sequences, FiniteSets, TLC

VARIABLES
    orig,       \* the directory at Overlay.path: "absent", "empty" or its content
    shadow,     \* the directory at Overlay.moved_path, likewise
    mounted,    \* TRUE iff Overlay.path is a mountpoint (what `mountpoint` reports)
    faulty,     \* TRUE iff the privileged helper may break its exit-code contract
    proc,       \* per invocation: position, locals and the events of the call
    calls,      \* the last two completed top-level calls (at most), latest last
    lastProbe,  \* the last run of get_current_mounting_state: input and result
    cfg,        \* ModSet part: the game configuration under resolution
    folders,    \* ModSet part: the mod folders that exist under the mod root
    built,      \* ModSet part: result of ModSet::from_config on the root set
    layers,     \* ModSet part: the string built by ModSet::get_mount_string
    attrs,      \* ModSet part: per set, the other fields of its configuration table
    gcfg,       \* Game part: the game-level fields of the configuration
    game,       \* Game part: the result of Game::from_config
    answers,    \* Game part: the last query made on the constructed Game
    runtime,    \* the names of the marker files in the game's runtime directory
    batch       \* the caller of activate and deactivate and its position: main's
                \* loop over the games of the command line, Game::setup, Game::wrap

fsVars == <<orig, shadow, mounted, faulty, proc, calls, lastProbe>>
msVars == <<cfg, folders, built, layers, attrs, gcfg, game, answers>>
vars == <<orig, shadow, mounted, faulty, proc, calls, lastProbe,
          cfg, folders, built, layers, attrs, gcfg, game, answers, runtime, batch>>

----------------------------------------------------------------------------
(* Bounds *)

\* the invocations (OS processes) of the tool
Procs == {1, 2}

\* possible contents of the game directory
Contents == {"gameA", "gameB"}

DirStates == {"absent", "empty"} \cup Contents

\* longest member list ("mods" array) of a set of the configuration
MaxMembers == 2

\* deepest nesting of ModSet::from_config calls that the stack takes
MaxDepth == 4

\* the sets (tables with a "mods" array) of the game configuration
SetNames == {"A", "B"}

\* the names that are no key of the game configuration: mod folders
Leaves == {"m1", "m10", "m:2"}

Names == SetNames \cup Leaves

MemberLists == UNION {[1..n -> Names] : n \in 0..MaxMembers}

\* the iteration orders of the HashMaps of a tree, as a ranking of the names
HashOrders == {<<"A", "B", "C">>, <<"C", "B", "A">>}

\* the sets of the configurations whose references form a tree
TreeSets == {"A", "B", "C"}

\* the command tables a set may name; UnknownCommand is no key of the game
\* configuration
CommandNames == {"c1", "c2"}

UnknownCommand == "c2"

\* the environment tables a set may have: sets of <<key, value>>, a key once
EnvMaps == {{}, {<<"X", "1">>}, {<<"X", "2">>, <<"Y", "1">>}}

\* the calls made one after the other on a game with commands: an activate
\* first, deactivates after it
MaxCalls == 2

\* most games of one batch (games named on one command line)
MaxGames == 2

\* most repetitions of deactivate in Game::setup after the first try
MaxRetries == 2

\* the process ids that the OS gives to spawned commands
Pids == {1, 2, 3}

\* the mod folders that exist: all of them, or all but one
FolderChoices == {Leaves} \cup {Leaves \ {l} : l \in Leaves}

----------------------------------------------------------------------------
(* File system helpers *)

\* Path::is_dir
IsDir(d) == d # "absent"

\* is_directory_empty: false when the path is no directory
IsDirectoryEmpty(d) == d = "empty"

Layout == [o |-> orig, s |-> shadow, m |-> mounted]

\* faults of the OS calls inside get_current_mounting_state: "spawn" = the
\* `mountpoint` process cannot be executed, "rmdir" = removing the empty
\* original directory fails
ProbeFaults == {"none", "spawn", "rmdir"}

MountStateError(o) == [state |-> "Error", kind |-> "MountState", o |-> o]

ProcessError(o) == [state |-> "Error", kind |-> "Process", o |-> o]

\* get_current_mounting_state, the original path is no directory
ProbeOrigMissing(o, s) ==
    IF ~IsDir(s) THEN MountStateError(o)
    ELSE IF IsDirectoryEmpty(s) THEN MountStateError(o)
    ELSE [state |-> "Moved", kind |-> "none", o |-> o]

\* get_current_mounting_state, the original path is a mountpoint
ProbeMounted(o, s) ==
    IF ~IsDir(s) THEN MountStateError(o)
    ELSE IF IsDirectoryEmpty(s) THEN MountStateError(o)
    ELSE [state |-> "Mounted", kind |-> "none", o |-> o]

\* a mutant: the stray empty original directory is rejected, not cleaned up
ProbeOrigEmpty_NoCleanup(o, s, fault) == MountStateError(o)

\* a mutant: the empty original directory is removed before the shadow
\* directory is looked at
ProbeOrigEmpty_RemovesFirst(o, s, fault) ==
    IF fault = "rmdir" THEN ProcessError(o)
    ELSE IF ~IsDir(s) THEN MountStateError("absent")
    ELSE IF IsDirectoryEmpty(s) THEN MountStateError("absent")
    ELSE [state |-> "Moved", kind |-> "none", o |-> "absent"]

\* get_current_mounting_state, the original path is an empty directory and
\* no mountpoint: the game files were moved, clean up
ProbeOrigEmpty(o, s, fault) ==
    IF ~IsDir(s) THEN MountStateError(o)
    ELSE IF IsDirectoryEmpty(s) THEN MountStateError(o)
    ELSE IF fault = "rmdir" THEN ProcessError(o)
    ELSE [state |-> "Moved", kind |-> "none", o |-> "absent"]

\* a mutant: the shadow directory is not looked at
ProbeOrigFilled_NoShadowCheck(o, s) ==
    [state |-> "Normal", kind |-> "none", o |-> o]

\* get_current_mounting_state, the original path is a non-empty directory
\* and no mountpoint
ProbeOrigFilled(o, s) ==
    IF IsDir(s) /\ ~IsDirectoryEmpty(s) THEN MountStateError(o)
    ELSE [state |-> "Normal", kind |-> "none", o |-> o]

\* Overlay::get_current_mounting_state on original o, shadow s and the answer
\* m of the mountpoint probe.  Result: the state (or "Error" with the error
\* kind) and the original directory afterwards.
GetCurrentMountingState(o, s, m, fault) ==
    IF ~IsDir(o) THEN ProbeOrigMissing(o, s)
    ELSE IF fault = "spawn" THEN ProcessError(o)
    ELSE IF m THEN ProbeMounted(o, s)
    ELSE IF IsDirectoryEmpty(o) THEN ProbeOrigEmpty(o, s, fault)
    ELSE ProbeOrigFilled(o, s)

\* Outcomes of one run of the privileged helper (pkexec
\* mod-manager-overlayfs-helper): spawned, exit code 0, effect done.
\* Under the exit-code contract, exit 0 <=> the effect happened.
HelperOutcomes(f) ==
    {[spawned |-> FALSE, exit0 |-> FALSE, effect |-> FALSE],
     [spawned |-> TRUE,  exit0 |-> TRUE,  effect |-> TRUE],
     [spawned |-> TRUE,  exit0 |-> FALSE, effect |-> FALSE]}
    \cup (IF f THEN {[spawned |-> TRUE, exit0 |-> TRUE,  effect |-> FALSE],
                     [spawned |-> TRUE, exit0 |-> FALSE, effect |-> TRUE]}
               ELSE {})

\* Overlay::change_cwd: true = back to the remembered directory, false = "/"
ChangeCwd(back) == IF back THEN "start" ELSE "/"

\* result of Overlay::mount: ok / error kind, the mount table, the working
\* directory, the events, the helper's exit as seen (hx) and the answer of
\* the mountpoint probe made after the helper (pm)
MountResult(ok, kind, m, cwd, ev, hx, pm) ==
    [ok |-> ok, kind |-> kind, m |-> m, cwd |-> cwd, ev |-> ev, hx |-> hx, pm |-> pm]

\* a mutant: the mountpoint is not probed again after the helper
OverlayMount_NoSafetyCheck(o, m, cwd, c1, h, pr, c2) ==
    IF ~c1
    THEN MountResult(FALSE, "Process", m, cwd, <<>>, "none", "none")
    ELSE LET m2 == m \/ (h.spawned /\ h.effect /\ IsDir(o))
         IN IF ~h.spawned
            THEN MountResult(FALSE, "Process", m, ChangeCwd(FALSE), <<"cwd_root">>,
                             "nospawn", "none")
            ELSE IF ~h.exit0
            THEN MountResult(FALSE, "Mount", m2, ChangeCwd(FALSE), <<"cwd_root", "mount">>,
                             "nonzero", "none")
            ELSE IF ~c2
            THEN MountResult(FALSE, "Process", m2, ChangeCwd(FALSE), <<"cwd_root", "mount">>,
                             "zero", IF m2 THEN "yes" ELSE "no")
            ELSE MountResult(TRUE, "none", m2, ChangeCwd(TRUE),
                             <<"cwd_root", "mount", "cwd_back">>, "zero",
                             IF m2 THEN "yes" ELSE "no")

\* a mutant: neither the helper's exit code nor the mountpoint is checked
OverlayMount_Unchecked(o, m, cwd, c1, h, pr, c2) ==
    IF ~c1
    THEN MountResult(FALSE, "Process", m, cwd, <<>>, "none", "none")
    ELSE LET m2 == m \/ (h.spawned /\ h.effect /\ IsDir(o))
         IN IF ~h.spawned
            THEN MountResult(FALSE, "Process", m, ChangeCwd(FALSE), <<"cwd_root">>,
                             "nospawn", "none")
            ELSE MountResult(TRUE, "none", m2, ChangeCwd(TRUE),
                             <<"cwd_root", "mount", "cwd_back">>,
                             IF h.exit0 THEN "zero" ELSE "nonzero", "none")

\* Overlay::mount.  o: original directory, m: mounted before, cwd: working
\* directory before, c1/c2: the two change_cwd calls succeed, h: helper
\* outcome, pr: the mountpoint probe after the helper can be executed.
OverlayMount(o, m, cwd, c1, h, pr, c2) ==
    IF ~c1
    THEN MountResult(FALSE, "Process", m, cwd, <<>>, "none", "none")
    ELSE LET m2 == m \/ (h.spawned /\ h.effect /\ IsDir(o))
         IN IF ~h.spawned
            THEN MountResult(FALSE, "Process", m, ChangeCwd(FALSE), <<"cwd_root">>,
                             "nospawn", "none")
            ELSE IF ~h.exit0
            THEN MountResult(FALSE, "Mount", m2, ChangeCwd(FALSE), <<"cwd_root", "mount">>,
                             "nonzero", "none")
            ELSE IF ~pr
            THEN MountResult(FALSE, "Process", m2, ChangeCwd(FALSE), <<"cwd_root", "mount">>,
                             "zero", "nospawn")
            ELSE IF ~m2
            THEN MountResult(FALSE, "MountState", m2, ChangeCwd(FALSE),
                             <<"cwd_root", "mount">>, "zero", "no")
            ELSE IF ~c2
            THEN MountResult(FALSE, "Process", m2, ChangeCwd(FALSE), <<"cwd_root", "mount">>,
                             "zero", "yes")
            ELSE MountResult(TRUE, "none", m2, ChangeCwd(TRUE),
                             <<"cwd_root", "mount", "cwd_back">>, "zero", "yes")

\* results of the busy probe (lsof): it found users, it found none, it could
\* not be executed
BusyProbes == {"busy", "free", "nospawn"}

\* result of Overlay::unmount: ok / error kind, the mount table, the working
\* directory, the events and the answer of the busy probe
UnmountResult(ok, kind, m, cwd, ev, busy) ==
    [ok |-> ok, kind |-> kind, m |-> m, cwd |-> cwd, ev |-> ev, busy |-> busy]

\* a mutant: the answer of the busy probe is not acted upon
OverlayUnmount_IgnoresBusy(m, cwd, c1, busy, h) ==
    IF ~c1
    THEN UnmountResult(FALSE, "Process", m, cwd, <<>>, "none")
    ELSE LET ev1 == IF busy = "nospawn" THEN <<"cwd_root">> ELSE <<"cwd_root", "lsof">>
             m2 == m /\ ~(h.spawned /\ h.effect)
         IN IF ~h.spawned
            THEN UnmountResult(FALSE, "Process", m, ChangeCwd(FALSE), ev1, busy)
            ELSE IF ~h.exit0
            THEN UnmountResult(FALSE, "Mount", m2, ChangeCwd(FALSE), ev1 \o <<"umount">>, busy)
            ELSE UnmountResult(TRUE, "none", m2, ChangeCwd(FALSE), ev1 \o <<"umount">>, busy)

\* a mutant: the working directory is changed after the busy probe only
OverlayUnmount_CwdAfterProbe(m, cwd, c1, busy, h) ==
    LET ev1 == IF busy = "nospawn" THEN <<>> ELSE <<"lsof">>
        m2 == m /\ ~(h.spawned /\ h.effect)
    IN IF busy = "busy"
       THEN UnmountResult(FALSE, "Used", m, cwd, ev1, busy)
       ELSE IF ~c1
       THEN UnmountResult(FALSE, "Process", m, cwd, ev1, busy)
       ELSE IF ~h.spawned
       THEN UnmountResult(FALSE, "Process", m, ChangeCwd(FALSE), ev1 \o <<"cwd_root">>, busy)
       ELSE IF ~h.exit0
       THEN UnmountResult(FALSE, "Mount", m2, ChangeCwd(FALSE),
                          ev1 \o <<"cwd_root", "umount">>, busy)
       ELSE UnmountResult(TRUE, "none", m2, ChangeCwd(FALSE),
                          ev1 \o <<"cwd_root", "umount">>, busy)

\* Overlay::unmount.  m: mounted before, cwd: working directory before,
\* c1: change_cwd(false) succeeds, busy: result of lsof, h: helper outcome.
OverlayUnmount(m, cwd, c1, busy, h) ==
    IF ~c1
    THEN UnmountResult(FALSE, "Process", m, cwd, <<>>, "none")
    ELSE LET ev1 == IF busy = "nospawn" THEN <<"cwd_root">> ELSE <<"cwd_root", "lsof">>
             m2 == m /\ ~(h.spawned /\ h.effect)
         IN IF busy = "busy"
            THEN UnmountResult(FALSE, "Used", m, ChangeCwd(FALSE), ev1, busy)
            ELSE IF ~h.spawned
            THEN UnmountResult(FALSE, "Process", m, ChangeCwd(FALSE), ev1, busy)
            ELSE IF ~h.exit0
            THEN UnmountResult(FALSE, "Mount", m2, ChangeCwd(FALSE), ev1 \o <<"umount">>, busy)
            ELSE UnmountResult(TRUE, "none", m2, ChangeCwd(FALSE), ev1 \o <<"umount">>, busy)

\* a mutant: the directory is copied, the source stays
Rename_Copies(src, dst, busyMount, io) ==
    IF io /\ IsDir(src) /\ dst \in {"absent", "empty"} /\ ~busyMount
    THEN [ok |-> TRUE, src |-> src, dst |-> src]
    ELSE [ok |-> FALSE, src |-> src, dst |-> dst]

\* a mutant: the content is moved, an empty directory stays at the source
Rename_LeavesSource(src, dst, busyMount, io) ==
    IF io /\ IsDir(src) /\ dst \in {"absent", "empty"} /\ ~busyMount
    THEN [ok |-> TRUE, src |-> "empty", dst |-> src]
    ELSE [ok |-> FALSE, src |-> src, dst |-> dst]

\* fs::rename(src, dst) of directories; io = FALSE: the call fails for a
\* reason outside the layout.  A directory can replace an absent or an
\* empty directory only; a mountpoint cannot be renamed or replaced.
Rename(src, dst, busyMount, io) ==
    IF io /\ IsDir(src) /\ dst \in {"absent", "empty"} /\ ~busyMount
    THEN [ok |-> TRUE, src |-> "absent", dst |-> src]
    ELSE [ok |-> FALSE, src |-> src, dst |-> dst]

\* fs::remove_dir(path): removes an empty directory that is no mountpoint
RemoveDir(d, busyMount, io) ==
    IF d = "absent" THEN [ok |-> FALSE, notFound |-> TRUE, d |-> d]
    ELSE IF io /\ d = "empty" /\ ~busyMount THEN [ok |-> TRUE, notFound |-> FALSE, d |-> "absent"]
    ELSE [ok |-> FALSE, notFound |-> FALSE, d |-> d]

\* fs::create_dir_all(path)
CreateDirAll(d, io) ==
    IF IsDir(d) THEN [ok |-> TRUE, d |-> d]
    ELSE IF io THEN [ok |-> TRUE, d |-> "empty"]
    ELSE [ok |-> FALSE, d |-> d]

----------------------------------------------------------------------------
(* ModSet: resolution of the mod-set tree *)

\* the text of a member name, character by character
NameChars(n) ==
    CASE n = "m1" -> <<"m", "1">>
      [] n = "m10" -> <<"m", "1", "0">>
      [] n = "m:2" -> <<"m", ":", "2">>
      [] n = "m,3" -> <<"m", ",", "3">>
      [] n = "A" -> <<"A">>
      [] n = "B" -> <<"B">>
      [] n = "C" -> <<"C">>
      [] n = "c1" -> <<"c", "1">>
      [] n = "path" -> <<"p", "a", "t", "h">>

\* the mod root path; its name holds a comma
RootPath == <<"/", "r", ",">>

\* PathBuf::join
PathJoin(root, n) == root \o <<"/">> \o NameChars(n)

RECURSIVE Escape(_)
\* str::replace(":", "\:")
Escape(s) ==
    IF s = <<>> THEN <<>>
    ELSE IF Head(s) = ":" THEN <<"\\", ":">> \o Escape(Tail(s))
    ELSE <<Head(s)>> \o Escape(Tail(s))

\* str::contains: sub occurs somewhere in s
Contains(s, sub) ==
    \E i \in 1..(Len(s) - Len(sub) + 1) : SubSeq(s, i, i + Len(sub) - 1) = sub

RECURSIVE TrimStartColons(_)
\* str::trim_start_matches(':')
TrimStartColons(s) ==
    IF s # <<>> /\ Head(s) = ":" THEN TrimStartColons(Tail(s)) ELSE s

\* a mutant: a set that was met before is resolved again
AlreadyVisited_Never(name, visited) == FALSE

\* mod_set.rs:70, visited.contains(mod_name)
AlreadyVisited(name, visited) == name \in visited

FailedSet(kind, visited, depth) ==
    [ok |-> FALSE, kind |-> kind,
     set |-> [mods |-> <<>>, mod_sets |-> <<>>, writable |-> FALSE,
              should_run_pre_commands |-> FALSE, command |-> <<>>],
     visited |-> visited, depth |-> depth]

Max(a, b) == IF a >= b THEN a ELSE b

\* a mutant: a command that the game configuration does not define is dropped
ResolveCommand_Lenient(id, visited, added, subs, maxd) ==
    [ok |-> TRUE, kind |-> "none",
     set |-> [mods |-> added, mod_sets |-> subs,
              writable |-> attrs[id].writable,
              should_run_pre_commands |-> attrs[id].run_pre_command,
              command |-> IF attrs[id].command # <<>> /\ attrs[id].command[1] \in gcfg.commands
                          THEN attrs[id].command ELSE <<>>],
     visited |-> visited, depth |-> maxd]

\* ModSet::from_config after the loop, mod_set.rs:121-186: the flags are read,
\* the named command is looked up in the game configuration, the ModSet is
\* returned. An Option is a sequence of at most one element.
ResolveCommand(id, visited, added, subs, maxd) ==
    IF attrs[id].command # <<>> /\ attrs[id].command[1] \notin gcfg.commands
    THEN FailedSet("command", visited, maxd)
    ELSE [ok |-> TRUE, kind |-> "none",
          set |-> [mods |-> added, mod_sets |-> subs,
                   writable |-> attrs[id].writable,
                   should_run_pre_commands |-> attrs[id].run_pre_command,
                   command |-> attrs[id].command],
          visited |-> visited, depth |-> maxd]

\* the top-level keys of the game configuration that hold a scalar
ScalarKeys == {"path", "writable"}

\* a mutant: only the keys of the sets are looked at
KeyKind_SetsOnly(name) == IF name \in DOMAIN cfg THEN "table" ELSE "none"

\* mod_set.rs:61-66, game_config.get(mod_name) and as_table(): the sets and
\* the named commands are tables of the game configuration
KeyKind(name) ==
    IF name \in (DOMAIN cfg) \cup gcfg.commands THEN "table"
    ELSE IF name \in ScalarKeys THEN "scalar"
    ELSE "none"

RECURSIVE FromConfig(_, _, _)
RECURSIVE AddMembers(_, _, _, _, _, _, _)

\* a mutant: a set stays in visited after its construction returned
AddMembers_NoBacktrack(id, i, visited, added, subs, depth, maxd) ==
    IF i > Len(cfg[id])
    THEN ResolveCommand(id, visited, added, subs, maxd)
    ELSE LET name == cfg[id][i]
         IN IF KeyKind(name) = "table"
            THEN IF AlreadyVisited(name, visited)
                 THEN FailedSet("recursion", visited, maxd)
                 ELSE LET sub == FromConfig(name, visited \cup {name}, depth + 1)
                      IN IF ~sub.ok
                         THEN FailedSet(sub.kind, sub.visited, Max(maxd, sub.depth))
                         ELSE AddMembers(id, i + 1, sub.visited,
                                         Append(added, name),
                                         [n \in (DOMAIN subs) \cup {name} |->
                                             IF n = name THEN sub.set ELSE subs[n]],
                                         depth, Max(maxd, sub.depth))
            ELSE IF KeyKind(name) = "scalar"
                 THEN FailedSet("nottable", visited, maxd)
            ELSE IF name \notin folders
                 THEN FailedSet("missing", visited, maxd)
                 ELSE AddMembers(id, i + 1, visited, Append(added, name), subs, depth, maxd)

\* ModSet::from_config, the loop over the "mods" array from entry i on.
\* added: added_mods, subs: mod_sets, visited: the set passed by reference,
\* depth: nesting of this call, maxd: deepest nesting reached so far
AddMembers(id, i, visited, added, subs, depth, maxd) ==
    IF i > Len(cfg[id])
    THEN ResolveCommand(id, visited, added, subs, maxd)
    ELSE LET name == cfg[id][i]
         IN IF KeyKind(name) = "table"
            THEN IF AlreadyVisited(name, visited)
                 THEN FailedSet("recursion", visited, maxd)
                 ELSE LET sub == FromConfig(name, visited \cup {name}, depth + 1)
                      IN IF ~sub.ok
                         THEN FailedSet(sub.kind, sub.visited, Max(maxd, sub.depth))
                         ELSE AddMembers(id, i + 1, sub.visited \ {name},
                                         Append(added, name),
                                         [n \in (DOMAIN subs) \cup {name} |->
                                             IF n = name THEN sub.set ELSE subs[n]],
                                         depth, Max(maxd, sub.depth))
            ELSE IF KeyKind(name) = "scalar"
                 THEN FailedSet("nottable", visited, maxd)
            ELSE IF name \notin folders
                 THEN FailedSet("missing", visited, maxd)
                 ELSE AddMembers(id, i + 1, visited, Append(added, name), subs, depth, maxd)

\* ModSet::from_config(set_id, ..., visited); a nesting deeper than the stack
\* takes ends the process ("overflow"); a table that is no set, the table of
\* a named command, has no 'mods' array ("nomods")
FromConfig(id, visited, depth) ==
    IF depth > MaxDepth THEN FailedSet("overflow", visited, depth)
    ELSE IF id \notin DOMAIN cfg THEN FailedSet("nomods", visited, depth)
    ELSE IF cfg[id] = <<>> THEN FailedSet("empty", visited, depth)
    ELSE AddMembers(id, 1, visited, <<>>, <<>>, depth, depth)

\* mod_set.rs:219, mount_string.contains(&mod_path)
LayerKnown(ms, path) == Contains(ms, path)

RECURSIVE GetMountString(_, _)
RECURSIVE AddLayers(_, _, _)

\* ModSet::get_mount_string, the loop over self.mods from entry i on
AddLayers(set, i, ms) ==
    IF i > Len(set.mods) THEN ms
    ELSE LET name == set.mods[i]
         IN IF name \in DOMAIN set.mod_sets
            THEN AddLayers(set, i + 1, GetMountString(set.mod_sets[name], ms))
            ELSE LET path == Escape(PathJoin(RootPath, name))
                 IN AddLayers(set, i + 1,
                              IF LayerKnown(ms, path) THEN ms ELSE ms \o <<":">> \o path)

\* ModSet::get_mount_string(&self, mount_string)
GetMountString(set, ms) == TrimStartColons(AddLayers(set, 1, ms))

\* the game path and the shadow path next to it, game.rs:104-138
GamePath == <<"/", "g", ",">>

MovedPath == GamePath \o <<"_mod-manager">>

RECURSIVE EscapeSpecialMountChars(_)
\* escape_special_mount_chars: replace(",", "\,")
EscapeSpecialMountChars(s) ==
    IF s = <<>> THEN <<>>
    ELSE IF Head(s) = "," THEN <<"\\", ",">> \o EscapeSpecialMountChars(Tail(s))
    ELSE <<Head(s)>> \o EscapeSpecialMountChars(Tail(s))

\* game.rs:221
MountOptionsPrefix == <<"x-gvfs-hide", ",", "comment=x-gvfs-hide">>

\* a mutant: an empty set named on the command line is taken as a set name
ActiveSet_OverrideAsIs(set_override) ==
    IF set_override # <<>> THEN set_override
    ELSE IF gcfg.active = <<>> \/ gcfg.active[1] = "" THEN <<>> ELSE gcfg.active

\* Game::from_config, game.rs:179-200: the set to activate
ActiveSet(set_override) ==
    IF set_override # <<>>
    THEN (IF set_override[1] = "" THEN <<>> ELSE set_override)
    ELSE IF gcfg.active = <<>> \/ gcfg.active[1] = "" THEN <<>> ELSE gcfg.active

\* Game::from_config, game.rs:221-255: the mount options of the Game
MountOptions(tree) ==
    MountOptionsPrefix
    \o (IF tree = <<>> THEN <<>> ELSE GetMountString(tree[1], <<>>))
    \o <<",", "lowerdir+=">> \o EscapeSpecialMountChars(MovedPath)

\* the Game struct, or the error of its construction
GameOf(ok, kind, active_set, tree, hash) ==
    [ok |-> ok, kind |-> kind, active_set |-> active_set, mod_tree |-> tree, hash |-> hash,
     writable |-> gcfg.writable, should_run_pre_commands |-> gcfg.run_pre_commands,
     mount_options |-> IF ok THEN MountOptions(tree) ELSE <<>>]

\* Game::from_config, game.rs:179-273: the active set is chosen, its tree is
\* built with an empty visited set, the layers are collected into the mount
\* options. gcfg.set_override is the set named on the command line, hash is
\* the iteration order of the HashMaps of the tree.
GameFromConfig ==
    /\ game = <<>>
    /\ LET a == ActiveSet(gcfg.set_override)
       IN \E hash \in HashOrders :
          IF a = <<>>
          THEN /\ game' = <<GameOf(TRUE, "none", a, <<>>, hash)>>
               /\ UNCHANGED <<built, layers>>
          ELSE IF a[1] \notin DOMAIN cfg
          THEN /\ game' = <<GameOf(FALSE, "notfound", a, <<>>, hash)>>
               /\ UNCHANGED <<built, layers>>
          ELSE LET res == FromConfig(a[1], {}, 1)
               IN /\ built' = <<[root |-> a[1], res |-> res]>>
                  /\ layers' = IF res.ok THEN <<GetMountString(res.set, <<>>)>> ELSE <<>>
                  /\ game' = <<GameOf(res.ok, res.kind, a,
                                          IF res.ok THEN <<res.set>> ELSE <<>>, hash)>>
    /\ UNCHANGED <<cfg, folders, attrs, gcfg, answers, runtime, batch,
                   orig, shadow, mounted, faulty, proc, calls, lastProbe>>

\* the child sets of a node in the iteration order of its HashMap
Values(set, hash) ==
    LET keys == SelectSeq(hash, LAMBDA k : k \in DOMAIN set.mod_sets)
    IN [i \in 1..Len(keys) |-> set.mod_sets[keys[i]]]

\* ModSet::get_commands, mod_set.rs:196-200: the node's own command
PushOwnCommand(list, command) ==
    IF command # <<>> /\ ~\E i \in 1..Len(list) : list[i] = command[1]
    THEN Append(list, command[1])
    ELSE list

RECURSIVE GetCommands(_, _)
\* ModSet::get_commands: the commands of self.mod_sets.values(), then the own
GetCommands(set, hash) ==
    LET kids == Values(set, hash)
        RECURSIVE collect(_)
        collect(i) == IF i > Len(kids) THEN <<>>
                      ELSE GetCommands(kids[i], hash) \o collect(i + 1)
    IN PushOwnCommand(collect(1), set.command)

RECURSIVE ShouldBeWritable_OwnOnly(_)
\* a mutant: the child sets are not asked
ShouldBeWritable_OwnOnly(set) == set.writable

RECURSIVE ShouldBeWritable(_)
\* ModSet::should_be_writable
ShouldBeWritable(set) ==
    set.writable \/ \E n \in DOMAIN set.mod_sets : ShouldBeWritable(set.mod_sets[n])

RECURSIVE ShouldRunPreCommands(_)
\* ModSet::should_run_pre_commands
ShouldRunPreCommands(set) ==
    set.should_run_pre_commands
    \/ \E n \in DOMAIN set.mod_sets : ShouldRunPreCommands(set.mod_sets[n])

\* the environment map acc with the entries of map more put over it
MergeEnvironment(acc, more) ==
    {p \in acc : ~\E q \in more : q[1] = p[1]} \cup more

RECURSIVE GetEnvironment(_, _)
\* ModSet::get_environment of the node built for set id: the node's own
\* variables, overwritten by the merged variables of each child set in the
\* order of the member list
GetEnvironment(id, set) ==
    LET RECURSIVE merge(_, _)
        merge(i, acc) ==
            IF i > Len(set.mods) THEN acc
            ELSE IF set.mods[i] \in DOMAIN set.mod_sets
            THEN merge(i + 1, MergeEnvironment(acc,
                                 GetEnvironment(set.mods[i], set.mod_sets[set.mods[i]])))
            ELSE merge(i + 1, acc)
    IN merge(1, attrs[id].environment)

\* the variables of a map as the Vec<(String, String)> handed to the command
EnvironmentVec(map) ==
    LET keys == SelectSeq(<<"X", "Y">>, LAMBDA k : \E p \in map : p[1] = k)
    IN [i \in 1..Len(keys) |-> CHOOSE p \in map : p[1] = keys[i]]

\* a mutant: the variables are not taken over
AddEnvironmentVariables_Keep(env, variables) == env

\* ExternalCommand::add_environment_variables: self.env.append(variables)
AddEnvironmentVariables(env, variables) == env \o variables

HasTree == game # <<>> /\ game[1].ok /\ game[1].mod_tree # <<>>

QueryUnchanged ==
    UNCHANGED <<cfg, folders, attrs, gcfg, built, layers, game, runtime, batch,
                orig, shadow, mounted, faulty, proc, calls, lastProbe>>

\* Game::activate, game.rs:336-339: tree.get_commands()
QueryCommands ==
    /\ HasTree
    /\ answers' = <<[q |-> "get_commands",
                     v |-> GetCommands(game[1].mod_tree[1], game[1].hash)]>>
    /\ QueryUnchanged

\* Game::get_mount_string, game.rs:634-637: t.should_be_writable()
QueryWritable ==
    /\ HasTree
    /\ answers' = <<[q |-> "should_be_writable",
                     v |-> ShouldBeWritable(game[1].mod_tree[1])]>>
    /\ QueryUnchanged

\* Game::should_run_pre_commands, game.rs:749-751
QueryPreCommands ==
    /\ HasTree
    /\ answers' = <<[q |-> "should_run_pre_commands",
                     v |-> ShouldRunPreCommands(game[1].mod_tree[1])]>>
    /\ QueryUnchanged

\* the cache home of the game's XDG directories; its name holds a comma
CacheHome == <<"/", "c", ",">>

\* BaseDirectories::create_cache_directory(name): the directory's path
CacheDirectory(name) == CacheHome \o <<"/", name>>

\* game.rs:640-648: the name of the upper directory
PersistentName(is_setup) ==
    IF is_setup THEN "persistent_setup"
    ELSE IF game[1].active_set # <<>> /\ game[1].mod_tree # <<>>
    THEN "persistent"
    ELSE "persistent_modless"

\* game.rs:640-648: the upper directory; "<set>_persistent" for an active set
UpperDirectory(is_setup) ==
    IF PersistentName(is_setup) = "persistent"
    THEN CacheHome \o <<"/">> \o NameChars(game[1].active_set[1]) \o <<"_persistent">>
    ELSE CacheDirectory(PersistentName(is_setup))

\* game.rs:712: no set is active and there is no tree
NeedsDummy == game[1].active_set = <<>> /\ game[1].mod_tree = <<>>

\* a mutant: the writable flags of the sets of the tree are not looked at
GameGetMountString_TreeIgnored(writable, is_setup, io) ==
    IF writable \/ game[1].writable
    THEN IF ~io THEN [ok |-> FALSE, s |-> <<>>]
         ELSE [ok |-> TRUE,
               s |-> game[1].mount_options
                     \o <<",", "upperdir=">> \o UpperDirectory(is_setup)
                     \o <<",", "workdir=">> \o CacheDirectory("workdir")
                     \o <<",", "index=off", ",", "metacopy=off">>]
    ELSE IF NeedsDummy
    THEN IF ~io THEN [ok |-> FALSE, s |-> <<>>]
         ELSE [ok |-> TRUE,
               s |-> game[1].mount_options \o <<",", "lowerdir+=">>
                     \o EscapeSpecialMountChars(CacheDirectory("mod-manager_empty_dummy"))]
    ELSE [ok |-> TRUE, s |-> game[1].mount_options]

\* game.rs:632-637: the mount gets an upper directory
WritableMount(writable) ==
    \/ writable
    \/ game[1].writable
    \/ (game[1].mod_tree # <<>> /\ ShouldBeWritable(game[1].mod_tree[1]))

\* Game::get_mount_string(writable, is_setup), game.rs:630-742; io tells
\* whether the cache directories could be created and the workdir cleaned
GameGetMountString(writable, is_setup, io) ==
    IF WritableMount(writable)
    THEN IF ~io THEN [ok |-> FALSE, s |-> <<>>]
         ELSE [ok |-> TRUE,
               s |-> game[1].mount_options
                     \o <<",", "upperdir=">> \o UpperDirectory(is_setup)
                     \o <<",", "workdir=">> \o CacheDirectory("workdir")
                     \o <<",", "index=off", ",", "metacopy=off">>]
    ELSE IF NeedsDummy
    THEN IF ~io THEN [ok |-> FALSE, s |-> <<>>]
         ELSE [ok |-> TRUE,
               s |-> game[1].mount_options \o <<",", "lowerdir+=">>
                     \o EscapeSpecialMountChars(CacheDirectory("mod-manager_empty_dummy"))]
    ELSE [ok |-> TRUE, s |-> game[1].mount_options]

\* Game::should_run_pre_commands, game.rs:744-754
GameShouldRunPreCommands ==
    \/ game[1].should_run_pre_commands
    \/ (game[1].mod_tree # <<>> /\ ShouldRunPreCommands(game[1].mod_tree[1]))

\* Game::activate, game.rs:337-340: the commands of the tree, an Option
TreeCommands ==
    IF game[1].mod_tree # <<>>
    THEN <<GetCommands(game[1].mod_tree[1], game[1].hash)>>
    ELSE <<>>

\* Game::activate, game.rs:342-343: run_pre_commands is called
RunsPreCommands ==
    GameShouldRunPreCommands \/ (TreeCommands # <<>> /\ TreeCommands[1] # <<>>)

\* a mutant: the own list is started without looking at the flag
PreCommandList_OwnAlways ==
    [i \in 1..Len(gcfg.pre_command) |-> [id |-> gcfg.pre_command[i], src |-> "own"]]
    \o (IF TreeCommands # <<>>
        THEN [i \in 1..Len(TreeCommands[1]) |-> [id |-> TreeCommands[1][i], src |-> "tree"]]
        ELSE <<>>)

\* a mutant: the commands of the tree come first
PreCommandList_TreeFirst ==
    (IF TreeCommands # <<>>
     THEN [i \in 1..Len(TreeCommands[1]) |-> [id |-> TreeCommands[1][i], src |-> "tree"]]
     ELSE <<>>)
    \o (IF GameShouldRunPreCommands
        THEN [i \in 1..Len(gcfg.pre_command) |-> [id |-> gcfg.pre_command[i], src |-> "own"]]
        ELSE <<>>)

\* Game::run_pre_commands, game.rs:770-818: the commands to run: the game's
\* own list if the flag is set, then the commands of the tree
PreCommandList ==
    (IF GameShouldRunPreCommands
     THEN [i \in 1..Len(gcfg.pre_command) |-> [id |-> gcfg.pre_command[i], src |-> "own"]]
     ELSE <<>>)
    \o (IF TreeCommands # <<>>
        THEN [i \in 1..Len(TreeCommands[1]) |-> [id |-> TreeCommands[1][i], src |-> "tree"]]
        ELSE <<>>)

\* format!("{}", pid): the name of the marker file of a process
PidName(pid) ==
    CASE pid = 1 -> "1"
      [] pid = 2 -> "2"
      [] pid = 3 -> "3"

\* game.rs:355-357: file_stem, to_str and parse::<i32> of a marker's name;
\* <<>> when the name is no number
ParsePid(name) ==
    CASE name = "0" -> <<0>>
      [] name = "1" -> <<1>>
      [] name = "2" -> <<2>>
      [] name = "3" -> <<3>>
      [] OTHER -> <<>>

\* Game::activate, game.rs:331: the option string for the mount helper
QueryMountString ==
    /\ game # <<>> /\ game[1].ok
    /\ \E writable \in BOOLEAN, is_setup \in BOOLEAN, io \in BOOLEAN :
          answers' = <<[q |-> "get_mount_string",
                        v |-> [writable |-> writable, is_setup |-> is_setup, io |-> io,
                               res |-> GameGetMountString(writable, is_setup, io)]]>>
    /\ QueryUnchanged

\* Game::wrap, game.rs:513-516: the environment of the tree is added to the
\* wrapped command, which main builds with ExternalCommand::new (no variables)
WrapEnvironment ==
    /\ HasTree
    /\ answers' = <<[q |-> "wrap_environment",
                     v |-> AddEnvironmentVariables(<<>>,
                              EnvironmentVec(GetEnvironment(game[1].active_set[1],
                                                            game[1].mod_tree[1])))]>>
    /\ QueryUnchanged

MsNext ==
    \/ GameFromConfig
    \/ QueryCommands
    \/ QueryWritable
    \/ QueryPreCommands
    \/ WrapEnvironment

\* a set table with the "mods" array only
PlainSet ==
    [command |-> <<>>, writable |-> FALSE, run_pre_command |-> FALSE, environment |-> {}]

\* a game configuration without "active", flags and command tables;
\* set_override and cli_writable are the set and the writable flag given on
\* the command line, pre_command the ids of the game's own pre-commands,
\* wait_for_exit the ids of the commands that are waited for
PlainGame ==
    [set_override |-> <<>>, active |-> <<>>, writable |-> FALSE,
     run_pre_commands |-> FALSE, commands |-> {},
     cli_writable |-> FALSE, pre_command |-> <<>>, wait_for_exit |-> {}]

----------------------------------------------------------------------------
(* Invocations *)

IdleProc == [pc |-> "idle", op |-> "none", nested |-> FALSE, st |-> "none",
             kind |-> "none", gerr |-> "none", cwd |-> "start", trace |-> <<>>,
             hx |-> "none", pm |-> "none", busy |-> "none",
             pre |-> [o |-> "absent", s |-> "absent", m |-> FALSE],
             cmds |-> <<>>, running |-> <<>>, cmdlog |-> <<>>, marked |-> {}, markfail |-> {},
             seen |-> {}, sig |-> {}, killed |-> {}]

\* of an earlier call only the operation, the result and the layouts are kept
Summary(c) == [c EXCEPT !.gerr = "none", !.kind = "none", !.cwd = "start", !.trace = <<>>,
                        !.hx = "none", !.pm = "none", !.busy = "none",
                        !.cmdlog = <<>>, !.marked = {}, !.markfail = {},
                        !.seen = {}, !.sig = {}, !.killed = {}]

Remember(s, c) == IF s = <<>> THEN <<c>> ELSE <<Summary(s[Len(s)]), c>>

NoneRunning == \A q \in Procs : proc[q].pc = "idle"

\* a top-level call of invocation p returns res with the layout lay
Return(p, me, res, lay) ==
    /\ proc' = [proc EXCEPT ![p] = IdleProc]
    /\ calls' = Remember(calls, [op |-> me.op, res |-> res, gerr |-> me.gerr,
                                 kind |-> me.kind, pre |-> me.pre, post |-> lay,
                                 cwd |-> me.cwd, trace |-> me.trace,
                                 hx |-> me.hx, pm |-> me.pm, busy |-> me.busy,
                                 cmdlog |-> me.cmdlog, marked |-> me.marked,
                                 markfail |-> me.markfail, seen |-> me.seen, sig |-> me.sig,
                                 killed |-> me.killed])

\* Game::deactivate returns: to its caller activate (game.rs:285-286) or to
\* the top level
DReturn(p, me, res, lay) ==
    IF me.nested
    THEN IF res = "Ok"
         THEN /\ proc' = [proc EXCEPT ![p] = [me EXCEPT !.pc = "a_probe2", !.nested = FALSE]]
              /\ UNCHANGED calls
         ELSE Return(p, me, "Err", lay)
    ELSE Return(p, me, res, lay)

\* one run of get_current_mounting_state by invocation p; gives the updated
\* locals of p
Probed(me, r) ==
    [me EXCEPT !.st = r.state, !.kind = r.kind,
               !.trace = IF r.o # orig THEN Append(@, "cleanup_rmdir") ELSE @]

ProbeEffect(p, fault, r) ==
    /\ orig' = r.o
    /\ lastProbe' = <<[in |-> Layout, out |-> r]>>

\* main: a new invocation calls Game::activate
StartActivate(p) ==
    /\ NoneRunning
    /\ proc' = [proc EXCEPT ![p] = [IdleProc EXCEPT !.pc = "a_probe1", !.op = "activate",
                                                    !.pre = Layout]]
    /\ lastProbe' = <<>>
    /\ UNCHANGED <<orig, shadow, mounted, faulty, calls, cfg, folders, built, layers, attrs, gcfg, game, answers, runtime, batch>>

\* main: a new invocation calls Game::deactivate
StartDeactivate(p) ==
    /\ NoneRunning
    /\ proc' = [proc EXCEPT ![p] = [IdleProc EXCEPT !.pc = "d_pids", !.op = "deactivate",
                                                    !.pre = Layout]]
    /\ lastProbe' = <<>>
    /\ UNCHANGED <<orig, shadow, mounted, faulty, calls, cfg, folders, built, layers, attrs, gcfg, game, answers, runtime, batch>>

\* activate, game.rs:277-287: re-mount in case the mod set has changed
ActProbe1(p) ==
    /\ proc[p].pc = "a_probe1"
    /\ \E fault \in ProbeFaults :
        LET r == GetCurrentMountingState(orig, shadow, mounted, fault)
            me == Probed(proc[p], r)
        IN /\ ProbeEffect(p, fault, r)
           /\ IF r.state = "Error"
              THEN Return(p, me, "Err", [Layout EXCEPT !.o = r.o])
              ELSE /\ proc' = [proc EXCEPT ![p] =
                                 IF r.state = "Mounted"
                                 THEN [me EXCEPT !.pc = "d_pids", !.nested = TRUE]
                                 ELSE [me EXCEPT !.pc = "a_probe2"]]
                   /\ UNCHANGED calls
    /\ UNCHANGED <<shadow, mounted, faulty, cfg, folders, built, layers, attrs, gcfg, game, answers, runtime, batch>>

\* activate, game.rs:289-296
ActProbe2(p) ==
    /\ proc[p].pc = "a_probe2"
    /\ \E fault \in ProbeFaults :
        LET r == GetCurrentMountingState(orig, shadow, mounted, fault)
            me == Probed(proc[p], r)
        IN /\ ProbeEffect(p, fault, r)
           /\ IF r.state = "Error"
              THEN Return(p, me, "Err", [Layout EXCEPT !.o = r.o])
              ELSE /\ proc' = [proc EXCEPT ![p] =
                                 IF r.state = "Normal"
                                 THEN [me EXCEPT !.pc = "a_rename"]
                                 ELSE [me EXCEPT !.pc = "a_probe3"]]
                   /\ UNCHANGED calls
    /\ UNCHANGED <<shadow, mounted, faulty, cfg, folders, built, layers, attrs, gcfg, game, answers, runtime, batch>>

\* activate, game.rs:297-303: move path to moved_path
ActRename(p) ==
    /\ proc[p].pc = "a_rename"
    /\ \E io \in BOOLEAN :
        LET r == Rename(orig, shadow, mounted, io)
        IN /\ orig' = r.src
           /\ shadow' = r.dst
           /\ IF r.ok
              THEN /\ proc' = [proc EXCEPT ![p] =
                                 [@ EXCEPT !.pc = "a_probe3",
                                           !.trace = Append(@, "rename_out")]]
                   /\ UNCHANGED calls
              ELSE Return(p, proc[p], "Err", Layout)
    /\ lastProbe' = <<>>
    /\ UNCHANGED <<mounted, faulty, cfg, folders, built, layers, attrs, gcfg, game, answers, runtime, batch>>

\* a mutant: only a failed probe ends the call, every state that was read
\* goes on to the mount
ActProbe3_AnyState(p) ==
    /\ proc[p].pc = "a_probe3"
    /\ \E fault \in ProbeFaults :
        LET r == GetCurrentMountingState(orig, shadow, mounted, fault)
            me == Probed(proc[p], r)
        IN /\ ProbeEffect(p, fault, r)
           /\ IF r.state = "Error"
              THEN Return(p, me, "Err", [Layout EXCEPT !.o = r.o])
              ELSE /\ proc' = [proc EXCEPT ![p] = [me EXCEPT !.pc = "a_mkdir"]]
                   /\ UNCHANGED calls
    /\ UNCHANGED <<shadow, mounted, faulty, cfg, folders, built, layers, attrs, gcfg, game, answers, runtime, batch>>

\* activate, game.rs:306-319: check if we're good to go
ActProbe3(p) ==
    /\ proc[p].pc = "a_probe3"
    /\ \E fault \in ProbeFaults :
        LET r == GetCurrentMountingState(orig, shadow, mounted, fault)
            me == Probed(proc[p], r)
        IN /\ ProbeEffect(p, fault, r)
           /\ IF r.state # "Moved"
              THEN Return(p, me, "Err", [Layout EXCEPT !.o = r.o])
              ELSE /\ proc' = [proc EXCEPT ![p] = [me EXCEPT !.pc = "a_mkdir"]]
                   /\ UNCHANGED calls
    /\ UNCHANGED <<shadow, mounted, faulty, cfg, folders, built, layers, attrs, gcfg, game, answers, runtime, batch>>

\* activate, game.rs:321-329: create the 'path' directory
ActCreateDir(p) ==
    /\ proc[p].pc = "a_mkdir"
    /\ \E io \in BOOLEAN :
        LET r == CreateDirAll(orig, io)
        IN /\ orig' = r.d
           /\ IF r.ok
              THEN /\ proc' = [proc EXCEPT ![p] =
                                 [@ EXCEPT !.pc = "a_mntstr", !.trace = Append(@, "mkdir")]]
                   /\ UNCHANGED calls
              ELSE Return(p, proc[p], "Err", Layout)
    /\ lastProbe' = <<>>
    /\ UNCHANGED <<shadow, mounted, faulty, cfg, folders, built, layers, attrs, gcfg, game, answers, runtime, batch>>

\* a mutant: the result of cleanworkdir is not looked at
ActMountString_CleanUnchecked(p) ==
    /\ proc[p].pc = "a_mntstr"
    /\ \E io \in BOOLEAN, h \in HelperOutcomes(faulty) :
        LET wm == WritableMount(gcfg.cli_writable)
            ev == IF wm /\ io
                  THEN (IF h.spawned /\ h.exit0 THEN <<"cleanworkdir", "cleanworkdir_ok">>
                        ELSE <<"cleanworkdir">>)
                  ELSE <<>>
            r == GameGetMountString(gcfg.cli_writable, FALSE, io)
            me == [proc[p] EXCEPT !.trace = @ \o ev]
        IN IF r.ok
           THEN /\ proc' = [proc EXCEPT ![p] = [me EXCEPT !.pc = "a_mount"]]
                /\ UNCHANGED calls
           ELSE Return(p, me, "Err", Layout)
    /\ lastProbe' = <<>>
    /\ UNCHANGED <<orig, shadow, mounted, faulty, cfg, folders, built, layers, attrs, gcfg, game, answers, runtime, batch>>

\* activate, game.rs:331: Game::get_mount_string(writable, false).  io: the
\* cache directories can be created; h: the run of the cleanworkdir helper
\* (Overlay::clean_working_directory), made for a writable mount only
ActMountString(p) ==
    /\ proc[p].pc = "a_mntstr"
    /\ \E io \in BOOLEAN, h \in HelperOutcomes(faulty) :
        LET wm == WritableMount(gcfg.cli_writable)
            ev == IF wm /\ io
                  THEN (IF h.spawned /\ h.exit0 THEN <<"cleanworkdir", "cleanworkdir_ok">>
                        ELSE <<"cleanworkdir">>)
                  ELSE <<>>
            r == GameGetMountString(gcfg.cli_writable, FALSE,
                                    io /\ (wm => (h.spawned /\ h.exit0)))
            me == [proc[p] EXCEPT !.trace = @ \o ev]
        IN IF r.ok
           THEN /\ proc' = [proc EXCEPT ![p] = [me EXCEPT !.pc = "a_mount"]]
                /\ UNCHANGED calls
           ELSE Return(p, me, "Err", Layout)
    /\ lastProbe' = <<>>
    /\ UNCHANGED <<orig, shadow, mounted, faulty, cfg, folders, built, layers, attrs, gcfg, game, answers, runtime, batch>>

\* a mutant: the overlay is mounted without its lower directory
LowerDirInPlace_Always(s) == TRUE

\* the mount options name the shadow path as a lower directory (lowerdir+=),
\* and the kernel mounts an overlay only with its lower directories in place
LowerDirInPlace(s) == IsDir(s)

\* activate, game.rs:332-335: Overlay::mount
ActMount(p) ==
    /\ proc[p].pc = "a_mount"
    /\ \E c1 \in BOOLEAN, h \in HelperOutcomes(faulty), pr \in BOOLEAN, c2 \in BOOLEAN :
        /\ h.effect => LowerDirInPlace(shadow)
        /\ LET r == OverlayMount(orig, mounted, proc[p].cwd, c1, h, pr, c2)
               me == [proc[p] EXCEPT !.kind = r.kind, !.cwd = r.cwd, !.trace = @ \o r.ev,
                                     !.hx = r.hx, !.pm = r.pm]
           IN /\ mounted' = r.m
              /\ IF r.ok
                 THEN /\ proc' = [proc EXCEPT ![p] = [me EXCEPT !.pc = "a_pre"]]
                      /\ UNCHANGED calls
                 ELSE Return(p, me, "Err", [Layout EXCEPT !.m = r.m])
    /\ lastProbe' = <<>>
    /\ UNCHANGED <<orig, shadow, faulty, cfg, folders, built, layers, attrs, gcfg, game, answers, runtime, batch>>

\* activate, game.rs:337-348, and run_pre_commands, game.rs:756-818: the
\* runtime directory is created (io) and the list of commands is set up;
\* without commands to run activate returns Ok
ActPreCommands(p) ==
    /\ proc[p].pc = "a_pre"
    /\ IF RunsPreCommands
       THEN \E io \in BOOLEAN :
               IF io /\ PreCommandList # <<>>
               THEN /\ proc' = [proc EXCEPT ![p] =
                                  [@ EXCEPT !.pc = "a_cmd", !.cmds = PreCommandList]]
                    /\ UNCHANGED calls
               ELSE Return(p, proc[p], "Ok", Layout)
       ELSE Return(p, proc[p], "Ok", Layout)
    /\ lastProbe' = <<>>
    /\ UNCHANGED <<orig, shadow, mounted, faulty, cfg, folders, built, layers, attrs, gcfg, game, answers, runtime, batch>>

\* a mutant: the Child is handed back for a command that was waited for too
ExternalCommandRun_AlwaysChild(id, spawned, pid) ==
    IF ~spawned THEN [ok |-> FALSE, waited |-> FALSE, child |-> <<>>]
    ELSE [ok |-> TRUE, waited |-> id \in gcfg.wait_for_exit, child |-> <<pid>>]

\* ExternalCommand::run, external_command.rs:120-162: Err when the spawn
\* fails, Some(child) for a command that is not waited for, else None
ExternalCommandRun(id, spawned, pid) ==
    IF ~spawned THEN [ok |-> FALSE, waited |-> FALSE, child |-> <<>>]
    ELSE IF id \notin gcfg.wait_for_exit
    THEN [ok |-> TRUE, waited |-> FALSE, child |-> <<pid>>]
    ELSE [ok |-> TRUE, waited |-> TRUE, child |-> <<>>]

\* run_pre_commands, game.rs:821-837: the next command is run; pid is the
\* process id of the spawned command, which no running child has
ActRunCommand(p) ==
    /\ proc[p].pc = "a_cmd"
    /\ \E spawned \in BOOLEAN,
          pid \in Pids \ {proc[p].running[i] : i \in 1..Len(proc[p].running)} :
        LET c == Head(proc[p].cmds)
            r == ExternalCommandRun(c.id, spawned, pid)
            me == [proc[p] EXCEPT !.cmds = Tail(@),
                                  !.running = @ \o r.child,
                                  !.cmdlog = Append(@, [id |-> c.id, src |-> c.src,
                                                        ok |-> r.ok, waited |-> r.waited,
                                                        child |-> r.child])]
        IN IF me.cmds # <<>>
           THEN /\ proc' = [proc EXCEPT ![p] = me]
                /\ UNCHANGED calls
           ELSE IF me.running # <<>>
           THEN /\ proc' = [proc EXCEPT ![p] = [me EXCEPT !.pc = "a_markers"]]
                /\ UNCHANGED calls
           ELSE Return(p, me, "Ok", Layout)
    /\ lastProbe' = <<>>
    /\ UNCHANGED <<orig, shadow, mounted, faulty, cfg, folders, built, layers, attrs, gcfg, game, answers, runtime, batch>>

\* run_pre_commands, game.rs:839-862: the marker file of the next running
\* process is placed and written (io; markfail holds the processes for which
\* that failed); after the last one activate returns
ActWriteMarker(p) ==
    /\ proc[p].pc = "a_markers"
    /\ \E io \in BOOLEAN :
        LET pid == Head(proc[p].running)
            me == [proc[p] EXCEPT !.running = Tail(@),
                                  !.marked = @ \cup {pid},
                                  !.markfail = IF io THEN @ ELSE @ \cup {pid}]
        IN /\ runtime' = IF io THEN runtime \cup {PidName(pid)} ELSE runtime
           /\ IF me.running # <<>>
              THEN /\ proc' = [proc EXCEPT ![p] = me]
                   /\ UNCHANGED calls
              ELSE Return(p, me, "Ok", [o |-> orig, s |-> shadow, m |-> mounted])
    /\ lastProbe' = <<>>
    /\ UNCHANGED <<orig, shadow, mounted, faulty, cfg, folders, built, layers, attrs, gcfg, game, answers, batch>>

\* deactivate, game.rs:355-383: the process id of a marker file; <<>> when
\* the marker is skipped
PidOfMarker(name) == ParsePid(name)

\* deactivate, game.rs:352-409: the loop over the marker files of the runtime
\* directory.  listed: the directory can be read; a marker whose name is no
\* number is skipped; Pid::from_raw(0) is None, on which expect panics, after
\* the markers in handled; the signal is sent to the others, killed are those
\* for which that succeeds (the process is there), removed those whose marker could be removed then
DeactPids(p) ==
    /\ proc[p].pc = "d_pids"
    /\ \E listed \in BOOLEAN :
        LET files == IF listed THEN runtime ELSE {}
            zero == {f \in files : PidOfMarker(f) = <<0>>}
        IN \E handled \in SUBSET (files \ zero) :
            /\ zero = {} => handled = files
            /\ LET numeric == {f \in handled : PidOfMarker(f) # <<>>}
               IN \E killed \in SUBSET numeric : \E removed \in SUBSET killed :
                   LET me == [proc[p] EXCEPT !.gerr = "none", !.seen = files,
                                             !.sig = {PidOfMarker(f)[1] : f \in numeric},
                                             !.killed = {PidOfMarker(f)[1] : f \in killed}]
                   IN /\ runtime' = runtime \ removed
                      /\ IF zero # {}
                         THEN Return(p, [me EXCEPT !.gerr = "panic"], "Panic", Layout)
                         ELSE /\ proc' = [proc EXCEPT ![p] = [me EXCEPT !.pc = "d_probe1"]]
                              /\ UNCHANGED calls
    /\ lastProbe' = <<>>
    /\ UNCHANGED <<orig, shadow, mounted, faulty, cfg, folders, built, layers, attrs, gcfg, game, answers, batch>>

\* a mutant: the state Normal is no early return, the call goes on to the
\* second probe as it does from Moved
DeactProbe1_NormalGoesOn(p) ==
    /\ proc[p].pc = "d_probe1"
    /\ \E fault \in ProbeFaults :
        LET r == GetCurrentMountingState(orig, shadow, mounted, fault)
            me == Probed(proc[p], r)
            lay == [Layout EXCEPT !.o = r.o]
        IN /\ ProbeEffect(p, fault, r)
           /\ CASE r.state = "Error" -> DReturn(p, [me EXCEPT !.gerr = "overlay"], "Err", lay)
                [] r.state = "Mounted" ->
                      /\ proc' = [proc EXCEPT ![p] = [me EXCEPT !.pc = "d_unmount"]]
                      /\ UNCHANGED calls
                [] r.state \in {"Moved", "Normal"} ->
                      /\ proc' = [proc EXCEPT ![p] = [me EXCEPT !.pc = "d_probe2"]]
                      /\ UNCHANGED calls
    /\ UNCHANGED <<shadow, mounted, faulty, cfg, folders, built, layers, attrs, gcfg, game, answers, runtime, batch>>

\* deactivate, game.rs:411-455: the match on the current state
DeactProbe1(p) ==
    /\ proc[p].pc = "d_probe1"
    /\ \E fault \in ProbeFaults :
        LET r == GetCurrentMountingState(orig, shadow, mounted, fault)
            me == Probed(proc[p], r)
            lay == [Layout EXCEPT !.o = r.o]
        IN /\ ProbeEffect(p, fault, r)
           /\ CASE r.state = "Error" -> DReturn(p, [me EXCEPT !.gerr = "overlay"], "Err", lay)
                [] r.state = "Normal" -> DReturn(p, me, "Ok", lay)
                [] r.state = "Mounted" ->
                      /\ proc' = [proc EXCEPT ![p] = [me EXCEPT !.pc = "d_unmount"]]
                      /\ UNCHANGED calls
                [] r.state = "Moved" ->
                      /\ proc' = [proc EXCEPT ![p] = [me EXCEPT !.pc = "d_probe2"]]
                      /\ UNCHANGED calls
    /\ UNCHANGED <<shadow, mounted, faulty, cfg, folders, built, layers, attrs, gcfg, game, answers, runtime, batch>>

\* deactivate, game.rs:421-437: Overlay::unmount and the mapping of its error
DeactUnmount(p) ==
    /\ proc[p].pc = "d_unmount"
    /\ \E c1 \in BOOLEAN, busy \in BusyProbes, h \in HelperOutcomes(faulty) :
        LET r == OverlayUnmount(mounted, proc[p].cwd, c1, busy, h)
            me == [proc[p] EXCEPT !.kind = r.kind, !.cwd = r.cwd, !.trace = @ \o r.ev,
                                  !.busy = r.busy]
            lay == [Layout EXCEPT !.m = r.m]
        IN /\ mounted' = r.m
           /\ IF r.ok
              THEN /\ proc' = [proc EXCEPT ![p] = [me EXCEPT !.pc = "d_probe2"]]
                   /\ UNCHANGED calls
              ELSE IF r.kind = "Used"
                   THEN DReturn(p, [me EXCEPT !.gerr = "Overlay in use."], "Err", lay)
                   ELSE DReturn(p, [me EXCEPT !.gerr = "overlay"], "Err", lay)
    /\ lastProbe' = <<>>
    /\ UNCHANGED <<orig, shadow, faulty, cfg, folders, built, layers, attrs, gcfg, game, answers, runtime, batch>>

\* deactivate, game.rs:457-464: move back only when the state reads Moved
DeactProbe2(p) ==
    /\ proc[p].pc = "d_probe2"
    /\ \E fault \in ProbeFaults :
        LET r == GetCurrentMountingState(orig, shadow, mounted, fault)
            me == Probed(proc[p], r)
        IN /\ ProbeEffect(p, fault, r)
           /\ IF r.state = "Error"
              THEN DReturn(p, [me EXCEPT !.gerr = "overlay"], "Err", [Layout EXCEPT !.o = r.o])
              ELSE /\ proc' = [proc EXCEPT ![p] =
                                 IF r.state = "Moved"
                                 THEN [me EXCEPT !.pc = "d_rmdir"]
                                 ELSE [me EXCEPT !.pc = "d_cwd"]]
                   /\ UNCHANGED calls
    /\ UNCHANGED <<shadow, mounted, faulty, cfg, folders, built, layers, attrs, gcfg, game, answers, runtime, batch>>

\* deactivate, game.rs:465-481: remove the empty game directory
DeactRemoveDir(p) ==
    /\ proc[p].pc = "d_rmdir"
    /\ \E io \in BOOLEAN :
        LET r == RemoveDir(orig, mounted, io)
        IN /\ orig' = r.d
           /\ IF r.ok \/ r.notFound
              THEN /\ proc' = [proc EXCEPT ![p] =
                                 [@ EXCEPT !.pc = "d_rename",
                                           !.trace = IF r.ok THEN Append(@, "rmdir") ELSE @]]
                   /\ UNCHANGED calls
              ELSE DReturn(p, [proc[p] EXCEPT !.gerr = "fs"], "Err", Layout)
    /\ lastProbe' = <<>>
    /\ UNCHANGED <<shadow, mounted, faulty, cfg, folders, built, layers, attrs, gcfg, game, answers, runtime, batch>>

\* deactivate, game.rs:483-492: move the game files back
DeactRename(p) ==
    /\ proc[p].pc = "d_rename"
    /\ \E io \in BOOLEAN :
        LET r == Rename(shadow, orig, mounted, io)
        IN /\ shadow' = r.src
           /\ orig' = r.dst
           /\ IF r.ok
              THEN /\ proc' = [proc EXCEPT ![p] =
                                 [@ EXCEPT !.pc = "d_cwd",
                                           !.trace = Append(@, "rename_back")]]
                   /\ UNCHANGED calls
              ELSE DReturn(p, [proc[p] EXCEPT !.gerr = "fs"], "Err", Layout)
    /\ lastProbe' = <<>>
    /\ UNCHANGED <<mounted, faulty, cfg, folders, built, layers, attrs, gcfg, game, answers, runtime, batch>>

\* deactivate, game.rs:495-507: restore the working directory, then Ok
DeactCwd(p) ==
    /\ proc[p].pc = "d_cwd"
    /\ \E io \in BOOLEAN :
        IF io
        THEN DReturn(p, [proc[p] EXCEPT !.cwd = ChangeCwd(TRUE),
                                        !.trace = Append(@, "cwd_back")], "Ok", Layout)
        ELSE DReturn(p, [proc[p] EXCEPT !.gerr = "process"], "Err", Layout)
    /\ lastProbe' = <<>>
    /\ UNCHANGED <<orig, shadow, mounted, faulty, cfg, folders, built, layers, attrs, gcfg, game, answers, runtime, batch>>

\* the invocation is killed between two steps
Kill(p) ==
    /\ proc[p].pc # "idle"
    /\ proc' = [proc EXCEPT ![p] = IdleProc]
    /\ calls' = <<[op |-> "killed", res |-> "none", gerr |-> "none", kind |-> "none",
                   pre |-> proc[p].pre, post |-> Layout, cwd |-> "start", trace |-> <<>>,
                   hx |-> "none", pm |-> "none", busy |-> "none",
                   cmdlog |-> <<>>, marked |-> {}, markfail |-> {}, seen |-> {}, sig |-> {}, killed |-> {}]>>
    /\ lastProbe' = <<>>
    /\ UNCHANGED <<orig, shadow, mounted, faulty, cfg, folders, built, layers, attrs, gcfg, game, answers, runtime, batch>>

FsNext ==
    \E p \in Procs :
    \/ StartActivate(p)
    \/ StartDeactivate(p)
    \/ ActProbe1(p)
    \/ ActProbe2(p)
    \/ ActRename(p)
    \/ ActProbe3(p)
    \/ ActCreateDir(p)
    \/ ActMountString(p)
    \/ ActMount(p)
    \/ ActPreCommands(p)
    \/ DeactPids(p)
    \/ DeactProbe1(p)
    \/ DeactUnmount(p)
    \/ DeactProbe2(p)
    \/ DeactRemoveDir(p)
    \/ DeactRename(p)
    \/ DeactCwd(p)
    \/ Kill(p)

\* the game of the file system specifications: its configuration has no
\* sets, no flags and no commands
MsIdle ==
    /\ cfg = <<>>
    /\ folders = {}
    /\ built = <<>>
    /\ layers = <<>>
    /\ attrs = <<>>
    /\ gcfg = PlainGame
    /\ game = <<GameOf(TRUE, "none", <<>>, <<>>, <<"A", "B", "C">>)>>
    /\ answers = <<>>

FsInitCommon ==
    /\ proc = [p \in Procs |-> IdleProc]
    /\ calls = <<>>
    /\ lastProbe = <<>>
    /\ runtime = {}
    /\ batch = <<>>
    /\ MsIdle

\* Normal layout: the game files at the original path, the shadow path absent
\* or empty, nothing mounted; the helper honours its exit-code contract
Init ==
    /\ orig \in Contents
    /\ shadow \in {"absent", "empty"}
    /\ mounted = FALSE
    /\ faulty = FALSE
    /\ FsInitCommon

Spec == Init /\ [][FsNext]_vars

\* Any layout (a mountpoint needs its directory), helper with or without contract
InitAny ==
    /\ orig \in DirStates
    /\ shadow \in DirStates
    /\ mounted \in BOOLEAN
    /\ mounted => IsDir(orig)
    /\ faulty \in BOOLEAN
    /\ FsInitCommon

SpecAny == InitAny /\ [][FsNext]_vars

----------------------------------------------------------------------------
(* Specifications of the mod-set and game part *)

\* the overlay part is idle in the ModSet specification
FsIdle ==
    /\ orig = "gameA"
    /\ shadow = "absent"
    /\ mounted = FALSE
    /\ faulty = FALSE
    /\ proc = [p \in Procs |-> IdleProc]
    /\ calls = <<>>
    /\ lastProbe = <<>>
    /\ runtime = {}
    /\ batch = <<>>

NothingBuilt ==
    /\ built = <<>>
    /\ layers = <<>>
    /\ game = <<>>
    /\ answers = <<>>

\* every configuration within the bounds, nothing resolved yet
InitModSet ==
    /\ cfg \in [SetNames -> MemberLists]
    /\ folders \in FolderChoices
    /\ attrs = [s \in SetNames |-> PlainSet]
    /\ gcfg \in {[PlainGame EXCEPT !.set_override = <<a>>] : a \in SetNames}
    /\ NothingBuilt
    /\ FsIdle

SpecModSet == InitModSet /\ [][MsNext]_vars

\* the member lists over the names in S, from lo to MaxMembers entries
ListsOver(S, lo) == UNION {[1..n -> S] : n \in lo..MaxMembers}

\* configurations of three sets whose references cannot form a cycle: A may
\* name B and C, B may name C; lo = 0 admits empty member lists
TreeShapes(lo) ==
    {[A |-> a, B |-> b, C |-> c] :
        a \in ListsOver({"B", "C", "m1"}, lo),
        b \in ListsOver({"C", "m1"}, lo),
        c \in {<<"m1">>} \cup (IF lo = 0 THEN {<<>>} ELSE {})}

OnCommandLine(a) == [PlainGame EXCEPT !.set_override = <<a>>]

\* sets that name commands, all of them defined
InitCommands ==
    /\ cfg \in TreeShapes(1)
    /\ folders = Leaves
    /\ attrs \in [TreeSets -> {[PlainSet EXCEPT !.command = c] :
                                  c \in {<<>>} \cup {<<n>> : n \in CommandNames}}]
    /\ gcfg = [OnCommandLine("A") EXCEPT !.commands = CommandNames]

\* sets with one of the two flags
InitFlags ==
    /\ cfg \in TreeShapes(1)
    /\ folders = Leaves
    /\ \/ attrs \in [TreeSets -> {[PlainSet EXCEPT !.writable = w] : w \in BOOLEAN}]
       \/ attrs \in [TreeSets -> {[PlainSet EXCEPT !.run_pre_command = r] : r \in BOOLEAN}]
    /\ gcfg = OnCommandLine("A")

\* defective configurations: empty member lists and a missing folder, or a
\* command that the game configuration does not define
InitDefects ==
    /\ \/ /\ cfg \in TreeShapes(0)
          /\ folders \in {Leaves, Leaves \ {"m1"}}
          /\ attrs = [s \in TreeSets |-> PlainSet]
       \/ /\ cfg \in TreeShapes(1)
          /\ folders = Leaves
          /\ attrs \in [TreeSets -> {[PlainSet EXCEPT !.command = c] :
                                        c \in {<<>>, <<UnknownCommand>>}}]
    /\ gcfg = [OnCommandLine("A") EXCEPT !.commands = CommandNames \ {UnknownCommand}]

GameNext ==
    \/ GameFromConfig
    \/ QueryMountString

\* the mod folders of the game configurations; one name holds a comma
GameLeaves == {"m1", "m,3"}

\* set A over set B and the mod folders, set B over the mod folders
GameShapes ==
    {c \in [{"A", "B"} -> ListsOver({"B"} \cup GameLeaves, 1)] :
        \A i \in 1..Len(c["B"]) : c["B"][i] # "B"}

\* the values of the optional 'active' field and of the set named on the
\* command line: missing, empty, a set of the configuration, no such set
Selections == {<<>>, <<"">>, <<"A">>, <<"B">>, <<"Z">>}

\* set A activated from the command line, over every shape
InitLayout ==
    /\ cfg \in GameShapes
    /\ attrs = [s \in {"A", "B"} |-> PlainSet]
    /\ gcfg = OnCommandLine("A")

\* every way to select a set, with and without the writable flags
InitSelection ==
    /\ cfg = [s \in {"A", "B"} |-> IF s = "A" THEN <<"B", "m1">> ELSE <<"m,3">>]
    /\ attrs \in [{"A", "B"} -> {[PlainSet EXCEPT !.writable = w] : w \in BOOLEAN}]
    /\ gcfg \in {[PlainGame EXCEPT !.set_override = o, !.active = a, !.writable = w] :
                    o \in Selections, a \in Selections, w \in BOOLEAN}

InitGame ==
    /\ \/ InitLayout
       \/ InitSelection
    /\ folders = GameLeaves
    /\ NothingBuilt
    /\ FsIdle

SpecGame == InitGame /\ [][GameNext]_vars

\* sets with environment tables
InitEnvironment ==
    /\ cfg \in TreeShapes(1)
    /\ folders = Leaves
    /\ attrs \in [TreeSets -> {[PlainSet EXCEPT !.environment = e] : e \in EnvMaps}]
    /\ gcfg = OnCommandLine("A")

InitTree ==
    /\ \/ InitCommands
       \/ InitFlags
       \/ InitDefects
    /\ NothingBuilt
    /\ FsIdle

SpecTree == InitTree /\ [][MsNext]_vars

InitEnvironmentTree ==
    /\ InitEnvironment
    /\ NothingBuilt
    /\ FsIdle

SpecEnvironment == InitEnvironmentTree /\ [][MsNext]_vars

\* main, Action::Activate for one game: Game::activate is called on the
\* constructed Game, as the first call
RunActivate(p) ==
    /\ game # <<>> /\ game[1].ok
    /\ calls = <<>>
    /\ StartActivate(p)

\* main, Action::Deactivate for one game
RunDeactivate(p) ==
    /\ game # <<>> /\ game[1].ok
    /\ Len(calls) < MaxCalls
    /\ StartDeactivate(p)

RunNext ==
    \/ GameFromConfig
    \/ \E p \in {1} :
        \/ RunActivate(p)
        \/ RunDeactivate(p)
        \/ ActProbe1(p)
        \/ ActProbe2(p)
        \/ ActRename(p)
        \/ ActProbe3(p)
        \/ ActCreateDir(p)
        \/ ActMountString(p)
        \/ ActMount(p)
        \/ ActPreCommands(p)
        \/ ActRunCommand(p)
        \/ ActWriteMarker(p)
        \/ DeactPids(p)
        \/ DeactProbe1(p)
        \/ DeactUnmount(p)
        \/ DeactProbe2(p)
        \/ DeactRemoveDir(p)
        \/ DeactRename(p)
        \/ DeactCwd(p)

\* set A over set B and a mod folder
RunShape == [s \in {"A", "B"} |-> IF s = "A" THEN <<"B", "m1">> ELSE <<"m1">>]

\* games with pre-commands: set A names command c1, the game has none or two
\* commands of its own; the flags, the waited-for commands and the selection
\* of set A vary
InitRunCommands ==
    /\ attrs \in {[s \in {"A", "B"} |->
                     IF s = "A" THEN [PlainSet EXCEPT !.command = <<"c1">>]
                     ELSE [PlainSet EXCEPT !.run_pre_command = r]] : r \in BOOLEAN}
    /\ gcfg \in {[PlainGame EXCEPT !.set_override = o, !.run_pre_commands = r,
                                   !.commands = CommandNames, !.pre_command = own,
                                   !.wait_for_exit = w] :
                    o \in {<<"A">>, <<"">>}, r \in BOOLEAN,
                    own \in {<<>>, <<"0", "1">>}, w \in {{}, {"0"}, {"c1"}}}
    /\ runtime = {}

\* games with and without the writable flags
InitRunWritable ==
    /\ attrs \in {[s \in {"A", "B"} |->
                     IF s = "A" THEN PlainSet ELSE [PlainSet EXCEPT !.writable = w]] :
                    w \in BOOLEAN}
    /\ gcfg \in {[PlainGame EXCEPT !.set_override = o, !.writable = w, !.cli_writable = c] :
                    o \in {<<"A">>, <<"">>}, w \in BOOLEAN, c \in BOOLEAN}
    /\ runtime = {}

\* a runtime directory with any markers: no number, zero, the id of a process
InitRunMarkers ==
    /\ attrs = [s \in {"A", "B"} |-> IF s = "A" THEN [PlainSet EXCEPT !.command = <<"c1">>]
                                     ELSE PlainSet]
    /\ gcfg = [PlainGame EXCEPT !.set_override = <<"A">>, !.commands = CommandNames]
    /\ runtime \in SUBSET {"x", "0", "2"}

InitRun ==
    /\ cfg = RunShape
    /\ folders = GameLeaves
    /\ \/ InitRunCommands
       \/ InitRunWritable
       \/ InitRunMarkers
    /\ NothingBuilt
    /\ orig = "gameA"
    /\ shadow = "absent"
    /\ mounted = FALSE
    /\ faulty = FALSE
    /\ proc = [p \in Procs |-> IdleProc]
    /\ calls = <<>>
    /\ lastProbe = <<>>
    /\ batch = <<>>

SpecRun == InitRun /\ [][RunNext]_vars

\* main, Action::Activate and Action::Deactivate over a list of games.  The
\* games of a batch are plain games without sets; disk holds the layout of
\* every game, and the layout of the game that is acted on is in orig, shadow
\* and mounted during its call.  out is what main has done so far: the calls
\* of Game::activate and Game::deactivate and the errors it printed.

\* the layouts of a game at the start of a batch: Normal, Moved, Mounted and
\* an invalid one (files at both paths)
BatchLayouts ==
    {[o |-> "gameA", s |-> "absent", m |-> FALSE],
     [o |-> "absent", s |-> "gameA", m |-> FALSE],
     [o |-> "empty", s |-> "gameA", m |-> TRUE],
     [o |-> "gameA", s |-> "gameB", m |-> FALSE]}

BatchOf(action, disk) ==
    [action |-> action, phase |-> action, i |-> 0, waiting |-> FALSE, failed |-> FALSE,
     disk |-> disk, out |-> <<>>]

\* a mutant: a failed activation ends the loop and nothing is deactivated
BatchAfter_NoCleanup(b, res) ==
    CASE b.phase = "activate" /\ res # "Ok" -> [b EXCEPT !.failed = TRUE, !.phase = "done"]
      [] b.i = Len(b.disk) -> [b EXCEPT !.phase = "done"]
      [] OTHER -> b

\* a mutant: a failed deactivation ends the loop
BatchAfter_Break(b, res) ==
    CASE b.phase = "activate" /\ res # "Ok" ->
            [b EXCEPT !.failed = TRUE, !.phase = "deactivate", !.i = 0]
      [] b.phase = "deactivate" /\ res # "Ok" -> [b EXCEPT !.phase = "done"]
      [] b.i = Len(b.disk) -> [b EXCEPT !.phase = "done"]
      [] OTHER -> b

\* main.rs:113-137 and 140-147: where the loops go after the call for game
\* b.i returned res.  A failed activate breaks the first loop and starts the
\* loop of deactivations over all games; a failed deactivate goes on with
\* the next game; after the last game main returns
BatchAfter(b, res) ==
    CASE b.phase = "activate" /\ res # "Ok" ->
            [b EXCEPT !.failed = TRUE, !.phase = "deactivate", !.i = 0]
      [] b.i = Len(b.disk) -> [b EXCEPT !.phase = "done"]
      [] OTHER -> b

\* main.rs:114 / 128 / 141: the call of Game::activate or Game::deactivate
\* for the next game of the list
BatchCall(p) ==
    /\ batch # <<>> /\ ~batch[1].waiting /\ batch[1].phase # "done"
    /\ NoneRunning
    /\ LET b == batch[1]
           g == b.i + 1
       IN /\ orig' = b.disk[g].o
          /\ shadow' = b.disk[g].s
          /\ mounted' = b.disk[g].m
          /\ proc' = [proc EXCEPT ![p] =
                        [IdleProc EXCEPT !.pc = IF b.phase = "activate" THEN "a_probe1"
                                                ELSE "d_pids",
                                         !.op = b.phase, !.pre = b.disk[g]]]
          /\ batch' = <<[b EXCEPT !.i = g, !.waiting = TRUE,
                                  !.out = Append(@, [kind |-> "call", op |-> b.phase,
                                                     g |-> g])]>>
    /\ calls' = <<>>
    /\ lastProbe' = <<>>
    /\ UNCHANGED <<faulty, cfg, folders, built, layers, attrs, gcfg, game, answers, runtime>>

\* main.rs:115-121 / 129-133 / 142-146: the match on the result of the call:
\* an error is printed at once
BatchResult(p) ==
    /\ batch # <<>> /\ batch[1].waiting
    /\ NoneRunning /\ calls # <<>>
    /\ LET b == batch[1]
           res == calls[Len(calls)].res
           b1 == [b EXCEPT !.waiting = FALSE, !.disk[b.i] = Layout,
                           !.out = IF res = "Ok" THEN @
                                   ELSE Append(@, [kind |-> "report", op |-> b.phase,
                                                   g |-> b.i])]
       IN batch' = <<BatchAfter(b1, res)>>
    /\ calls' = <<>>
    /\ lastProbe' = <<>>
    /\ UNCHANGED <<orig, shadow, mounted, faulty, proc, cfg, folders, built, layers, attrs, gcfg, game, answers, runtime>>

BatchNext ==
    \E p \in {1} :
        \/ BatchCall(p)
        \/ BatchResult(p)
        \/ ActProbe1(p)
        \/ ActProbe2(p)
        \/ ActRename(p)
        \/ ActProbe3(p)
        \/ ActCreateDir(p)
        \/ ActMountString(p)
        \/ ActMount(p)
        \/ ActPreCommands(p)
        \/ DeactPids(p)
        \/ DeactProbe1(p)
        \/ DeactUnmount(p)
        \/ DeactProbe2(p)
        \/ DeactRemoveDir(p)
        \/ DeactRename(p)
        \/ DeactCwd(p)

\* a batch of one to MaxGames games, each in one of the layouts, before the
\* first call; the helper honours its exit-code contract
InitBatch ==
    /\ orig = "gameA"
    /\ shadow = "absent"
    /\ mounted = FALSE
    /\ faulty = FALSE
    /\ proc = [p \in Procs |-> IdleProc]
    /\ calls = <<>>
    /\ lastProbe = <<>>
    /\ runtime = {}
    /\ MsIdle
    /\ batch \in {<<BatchOf(a, d)>> :
                    a \in {"activate", "deactivate"},
                    d \in UNION {[1..n -> BatchLayouts] : n \in 1..MaxGames}}

SpecBatch == InitBatch /\ [][BatchNext]_vars

\* Game::setup, game.rs:543-627, and its caller, main.rs:316-327.  The
\* position of setup is in batch: phase tells where it is, retries counts the
\* repetitions of deactivate, out is what it has done so far.

SetupOf == [action |-> "setup", phase |-> "begin", retries |-> 0, out |-> <<>>]

\* the call of Game::activate or Game::deactivate by the caller
CallerStarts(p, op) ==
    /\ proc' = [proc EXCEPT ![p] =
                  [IdleProc EXCEPT !.pc = IF op = "activate" THEN "a_probe1" ELSE "d_pids",
                                   !.op = op, !.pre = Layout]]
    /\ calls' = <<>>

\* a mutant: the in-use error ends setup like any other error
SetupLoopNext_GivesUp(res, gerr) ==
    IF res = "Ok" THEN "copy" ELSE "error"

\* Game::setup, game.rs:582-590: the condition of the while loop on the
\* result of deactivate
SetupLoopNext(res, gerr) ==
    IF res = "Ok" THEN "copy"
    ELSE IF gerr = "Overlay in use." THEN "retry"
    ELSE "error"

\* Game::setup, game.rs:544-563: the cache directory is created (io) and the
\* new mod must not exist yet; then activate(true, true)
SetupBegin(p) ==
    /\ batch # <<>> /\ batch[1].phase = "begin"
    /\ \E io \in BOOLEAN, exists \in BOOLEAN :
          IF ~io \/ exists
          THEN /\ batch' = <<[batch[1] EXCEPT !.phase = "error",
                                              !.out = Append(@, [ev |-> "error", lay |-> Layout])]>>
               /\ UNCHANGED <<proc, calls>>
          ELSE /\ batch' = <<[batch[1] EXCEPT !.phase = "activate",
                                              !.out = Append(@, [ev |-> "activate", lay |-> Layout])]>>
               /\ CallerStarts(p, "activate")
    /\ lastProbe' = <<>>
    /\ UNCHANGED <<orig, shadow, mounted, faulty, cfg, folders, built, layers, attrs, gcfg, game, answers, runtime>>

\* Game::setup, game.rs:563-582: activate returned; an error ends setup, else
\* the user makes the changes and deactivate is called
SetupActivated(p) ==
    /\ batch # <<>> /\ batch[1].phase = "activate"
    /\ NoneRunning /\ calls # <<>>
    /\ IF calls[Len(calls)].res = "Ok"
       THEN /\ batch' = <<[batch[1] EXCEPT !.phase = "loop",
                                           !.out = Append(@, [ev |-> "deactivate", lay |-> Layout])]>>
            /\ CallerStarts(p, "deactivate")
       ELSE /\ batch' = <<[batch[1] EXCEPT !.phase = "error",
                                           !.out = Append(@, [ev |-> "error", lay |-> Layout])]>>
            /\ calls' = <<>>
            /\ UNCHANGED proc
    /\ lastProbe' = <<>>
    /\ UNCHANGED <<orig, shadow, mounted, faulty, cfg, folders, built, layers, attrs, gcfg, game, answers, runtime>>

\* Game::setup, game.rs:582-600: deactivate returned: the loop goes on with
\* another deactivate after the in-use error, ends setup after another
\* error, and is left for the copy step after Ok
SetupLoop(p) ==
    /\ batch # <<>> /\ batch[1].phase = "loop"
    /\ NoneRunning /\ calls # <<>>
    /\ LET c == calls[Len(calls)]
           next == SetupLoopNext(c.res, c.gerr)
       IN CASE next = "retry" ->
                 /\ batch[1].retries < MaxRetries
                 /\ batch' = <<[batch[1] EXCEPT !.retries = @ + 1,
                                                !.out = Append(@, [ev |-> "deactivate",
                                                                   lay |-> Layout])]>>
                 /\ CallerStarts(p, "deactivate")
            [] next = "copy" ->
                 /\ batch' = <<[batch[1] EXCEPT !.phase = "copy"]>>
                 /\ calls' = <<>>
                 /\ UNCHANGED proc
            [] next = "error" ->
                 /\ batch' = <<[batch[1] EXCEPT !.phase = "error",
                                                !.out = Append(@, [ev |-> "error",
                                                                   lay |-> Layout])]>>
                 /\ calls' = <<>>
                 /\ UNCHANGED proc
    /\ lastProbe' = <<>>
    /\ UNCHANGED <<orig, shadow, mounted, faulty, cfg, folders, built, layers, attrs, gcfg, game, answers, runtime>>

\* Game::setup, game.rs:602-627: copy_dir_all of the collected changes, which
\* may fail; setup returns Ok either way
SetupCopy(p) ==
    /\ batch # <<>> /\ batch[1].phase = "copy"
    /\ \E copied \in BOOLEAN :
          batch' = <<[batch[1] EXCEPT !.phase = "done",
                                     !.out = Append(@, [ev |-> IF copied THEN "copy"
                                                               ELSE "copy_failed",
                                                        lay |-> Layout])]>>
    /\ lastProbe' = <<>>
    /\ UNCHANGED <<orig, shadow, mounted, faulty, proc, calls, cfg, folders, built, layers, attrs, gcfg, game, answers, runtime>>

\* main.rs:316-320: setup returned an error: it is printed and deactivate is
\* called
SetupFailed(p) ==
    /\ batch # <<>> /\ batch[1].phase = "error"
    /\ NoneRunning
    /\ batch' = <<[batch[1] EXCEPT !.phase = "cleanup",
                                   !.out = Append(@, [ev |-> "main_deactivate",
                                                      lay |-> Layout])]>>
    /\ CallerStarts(p, "deactivate")
    /\ lastProbe' = <<>>
    /\ UNCHANGED <<orig, shadow, mounted, faulty, cfg, folders, built, layers, attrs, gcfg, game, answers, runtime>>

\* main.rs:320-326: the deactivate of main returned; its error is printed
SetupCleaned(p) ==
    /\ batch # <<>> /\ batch[1].phase = "cleanup"
    /\ NoneRunning /\ calls # <<>>
    /\ batch' = <<[batch[1] EXCEPT !.phase = "done"]>>
    /\ calls' = <<>>
    /\ lastProbe' = <<>>
    /\ UNCHANGED <<orig, shadow, mounted, faulty, proc, cfg, folders, built, layers, attrs, gcfg, game, answers, runtime>>

SetupNext ==
    \E p \in {1} :
        \/ SetupBegin(p)
        \/ SetupActivated(p)
        \/ SetupLoop(p)
        \/ SetupCopy(p)
        \/ SetupFailed(p)
        \/ SetupCleaned(p)
        \/ ActProbe1(p)
        \/ ActProbe2(p)
        \/ ActRename(p)
        \/ ActProbe3(p)
        \/ ActCreateDir(p)
        \/ ActMountString(p)
        \/ ActMount(p)
        \/ ActPreCommands(p)
        \/ DeactPids(p)
        \/ DeactProbe1(p)
        \/ DeactUnmount(p)
        \/ DeactProbe2(p)
        \/ DeactRemoveDir(p)
        \/ DeactRename(p)
        \/ DeactCwd(p)

\* a plain game in any of the layouts; setup mounts writable
InitCaller ==
    /\ \E l \in BatchLayouts : orig = l.o /\ shadow = l.s /\ mounted = l.m
    /\ faulty = FALSE
    /\ proc = [p \in Procs |-> IdleProc]
    /\ calls = <<>>
    /\ lastProbe = <<>>
    /\ runtime = {}
    /\ cfg = <<>>
    /\ folders = {}
    /\ built = <<>>
    /\ layers = <<>>
    /\ attrs = <<>>
    /\ game = <<GameOf(TRUE, "none", <<>>, <<>>, <<"A", "B", "C">>)>>
    /\ answers = <<>>

InitSetup ==
    /\ gcfg = [PlainGame EXCEPT !.cli_writable = TRUE]
    /\ InitCaller
    /\ batch = <<SetupOf>>

\* the program goes on as long as it has a step to make: every helper and
\* every OS call returns, and the user answers the prompts
SpecSetup == InitSetup /\ [][SetupNext]_vars /\ WF_vars(SetupNext)

\* the names a member list is drawn from where members meet the other keys
\* of the game configuration: the sets, a mod folder, the table of the named
\* command c1 and the scalar key path
KeyNames == SetNames \cup {"m1", "c1", "path"}

\* the mod folders that exist: none has the name of a key, or there is a
\* folder for every name
KeyFolders == {{"m1"}, {"m1", "c1", "path"}, {"m1", "c1", "path", "A", "B"}}

\* game configurations with two sets and the command table c1, every member
\* list over KeyNames, cycles included
InitMembers ==
    /\ cfg \in [SetNames -> UNION {[1..n -> KeyNames] : n \in 0..MaxMembers}]
    /\ folders \in KeyFolders
    /\ attrs = [s \in SetNames |-> PlainSet]
    /\ gcfg \in {[PlainGame EXCEPT !.set_override = <<a>>, !.commands = {"c1"}] :
                    a \in SetNames}
    /\ NothingBuilt
    /\ FsIdle

SpecMembers == InitMembers /\ [][GameFromConfig]_vars

\* Game::wrap, game.rs:510-532, and its caller, main.rs:330-362.  The position
\* of wrap is in batch: phase tells where it is, out is what wrap and main
\* have done so far.

WrapOf == [action |-> "wrap", phase |-> "begin", out |-> <<>>]

\* what ExternalCommand::run of the wrapped command can do: the command runs
\* and exits with status zero or another one, or it cannot be spawned
CommandOutcomes == {"zero", "nonzero", "nospawn"}

\* a mutant: the command is run whatever activate returned
WrapAfterActivate_RunsAnyway(res) ==
    IF res = "Panic" THEN "aborted" ELSE "command"

\* Game::wrap, game.rs:511: self.activate(writable, false)?; a panic of
\* activate ends the process
WrapAfterActivate(res) ==
    IF res = "Ok" THEN "command"
    ELSE IF res = "Panic" THEN "aborted"
    ELSE "error"

\* Game::wrap, game.rs:528-531: the result of deactivate is the result of wrap
WrapAfterDeactivate(res) ==
    IF res = "Ok" THEN "done"
    ELSE IF res = "Panic" THEN "aborted"
    ELSE "error"

\* main.rs:335-350 and Game::wrap, game.rs:511: main has checked that there
\* is a command and built the Game; wrap calls activate
WrapBegin(p) ==
    /\ batch # <<>> /\ batch[1].phase = "begin"
    /\ batch' = <<[batch[1] EXCEPT !.phase = "activate",
                                   !.out = Append(@, [ev |-> "activate", res |-> "none",
                                                      lay |-> Layout])]>>
    /\ CallerStarts(p, "activate")
    /\ lastProbe' = <<>>
    /\ UNCHANGED <<orig, shadow, mounted, faulty, cfg, folders, built, layers, attrs, gcfg, game, answers, runtime>>

\* Game::wrap, game.rs:511: activate returned
WrapActivated(p) ==
    /\ batch # <<>> /\ batch[1].phase = "activate"
    /\ NoneRunning /\ calls # <<>>
    /\ LET res == calls[Len(calls)].res
       IN batch' = <<[batch[1] EXCEPT !.phase = WrapAfterActivate(res),
                                      !.out = Append(@, [ev |-> "activated", res |-> res,
                                                         lay |-> Layout])]>>
    /\ calls' = <<>>
    /\ lastProbe' = <<>>
    /\ UNCHANGED <<orig, shadow, mounted, faulty, proc, cfg, folders, built, layers, attrs, gcfg, game, answers, runtime>>

\* Game::wrap, game.rs:513-531: the environment of the tree is added, the
\* command is run and waited for, an error of run is printed; then deactivate
\* is called
WrapCommand(p) ==
    /\ batch # <<>> /\ batch[1].phase = "command"
    /\ \E outcome \in CommandOutcomes :
          batch' = <<[batch[1] EXCEPT !.phase = "deactivate",
                                     !.out = @ \o <<[ev |-> "command", res |-> outcome,
                                                     lay |-> Layout],
                                                    [ev |-> "deactivate", res |-> "none",
                                                     lay |-> Layout]>>]>>
    /\ CallerStarts(p, "deactivate")
    /\ lastProbe' = <<>>
    /\ UNCHANGED <<orig, shadow, mounted, faulty, cfg, folders, built, layers, attrs, gcfg, game, answers, runtime>>

\* Game::wrap, game.rs:528-531: deactivate returned
WrapDeactivated(p) ==
    /\ batch # <<>> /\ batch[1].phase = "deactivate"
    /\ NoneRunning /\ calls # <<>>
    /\ LET res == calls[Len(calls)].res
       IN batch' = <<[batch[1] EXCEPT !.phase = WrapAfterDeactivate(res),
                                      !.out = Append(@, [ev |-> "deactivated", res |-> res,
                                                         lay |-> Layout])]>>
    /\ calls' = <<>>
    /\ lastProbe' = <<>>
    /\ UNCHANGED <<orig, shadow, mounted, faulty, proc, cfg, folders, built, layers, attrs, gcfg, game, answers, runtime>>

\* main.rs:351-354: wrap returned an error: it is printed and deactivate is
\* called
WrapFailed(p) ==
    /\ batch # <<>> /\ batch[1].phase = "error"
    /\ NoneRunning
    /\ batch' = <<[batch[1] EXCEPT !.phase = "cleanup",
                                   !.out = Append(@, [ev |-> "main_deactivate", res |-> "none",
                                                      lay |-> Layout])]>>
    /\ CallerStarts(p, "deactivate")
    /\ lastProbe' = <<>>
    /\ UNCHANGED <<orig, shadow, mounted, faulty, cfg, folders, built, layers, attrs, gcfg, game, answers, runtime>>

\* main.rs:354-359: the deactivate of main returned; its error is printed
WrapCleaned(p) ==
    /\ batch # <<>> /\ batch[1].phase = "cleanup"
    /\ NoneRunning /\ calls # <<>>
    /\ batch' = <<[batch[1] EXCEPT !.phase = IF calls[Len(calls)].res = "Panic"
                                             THEN "aborted" ELSE "done"]>>
    /\ calls' = <<>>
    /\ lastProbe' = <<>>
    /\ UNCHANGED <<orig, shadow, mounted, faulty, proc, cfg, folders, built, layers, attrs, gcfg, game, answers, runtime>>

WrapNext ==
    \E p \in {1} :
        \/ WrapBegin(p)
        \/ WrapActivated(p)
        \/ WrapCommand(p)
        \/ WrapDeactivated(p)
        \/ WrapFailed(p)
        \/ WrapCleaned(p)
        \/ ActProbe1(p)
        \/ ActProbe2(p)
        \/ ActRename(p)
        \/ ActProbe3(p)
        \/ ActCreateDir(p)
        \/ ActMountString(p)
        \/ ActMount(p)
        \/ ActPreCommands(p)
        \/ ActRunCommand(p)
        \/ ActWriteMarker(p)
        \/ DeactPids(p)
        \/ DeactProbe1(p)
        \/ DeactUnmount(p)
        \/ DeactProbe2(p)
        \/ DeactRemoveDir(p)
        \/ DeactRename(p)
        \/ DeactCwd(p)

\* a game without sets in any of the layouts, with a pre-command of its own
\* that is waited for or not
InitWrap ==
    /\ gcfg \in {[PlainGame EXCEPT !.run_pre_commands = TRUE, !.pre_command = <<"0">>,
                                   !.wait_for_exit = w, !.cli_writable = c] :
                    w \in {{}, {"0"}}, c \in BOOLEAN}
    /\ InitCaller
    /\ batch = <<WrapOf>>

\* the program goes on as long as it has a step to make: every helper and
\* every OS call returns, and the wrapped command ends
SpecWrap == InitWrap /\ [][WrapNext]_vars /\ WF_vars(WrapNext)

\* Two invocations of the program against the same game at the same time:
\* each is one call of Game::activate or Game::deactivate, and their steps
\* interleave.  batch holds the invocations that were started.

ConcurrentOf == [action |-> "concurrent", started |-> {}]

\* main: invocation p is started while the other one may be running
ConcurrentStart(p) ==
    /\ batch # <<>> /\ p \notin batch[1].started
    /\ \E op \in {"activate", "deactivate"} :
          proc' = [proc EXCEPT ![p] =
                     [IdleProc EXCEPT !.pc = IF op = "activate" THEN "a_probe1" ELSE "d_pids",
                                      !.op = op, !.pre = Layout]]
    /\ batch' = <<[batch[1] EXCEPT !.started = @ \cup {p}]>>
    /\ lastProbe' = <<>>
    /\ UNCHANGED <<orig, shadow, mounted, faulty, calls, cfg, folders, built, layers, attrs, gcfg, game, answers, runtime>>

ConcurrentNext ==
    \E p \in Procs :
        \/ ConcurrentStart(p)
        \/ ActProbe1(p)
        \/ ActProbe2(p)
        \/ ActRename(p)
        \/ ActProbe3(p)
        \/ ActCreateDir(p)
        \/ ActMountString(p)
        \/ ActMount(p)
        \/ ActPreCommands(p)
        \/ DeactPids(p)
        \/ DeactProbe1(p)
        \/ DeactUnmount(p)
        \/ DeactProbe2(p)
        \/ DeactRemoveDir(p)
        \/ DeactRename(p)
        \/ DeactCwd(p)

\* the layouts that get_current_mounting_state accepts: Normal, Moved and
\* Mounted, with the other path absent or an empty directory
ValidLayouts ==
    {[o |-> "gameA", s |-> "absent", m |-> FALSE],
     [o |-> "gameA", s |-> "empty", m |-> FALSE],
     [o |-> "absent", s |-> "gameA", m |-> FALSE],
     [o |-> "empty", s |-> "gameA", m |-> FALSE],
     [o |-> "empty", s |-> "gameA", m |-> TRUE]}

InitConcurrent ==
    /\ \E l \in ValidLayouts : orig = l.o /\ shadow = l.s /\ mounted = l.m
    /\ faulty = FALSE
    /\ gcfg = PlainGame
    /\ proc = [p \in Procs |-> IdleProc]
    /\ calls = <<>>
    /\ lastProbe = <<>>
    /\ runtime = {}
    /\ cfg = <<>>
    /\ folders = {}
    /\ built = <<>>
    /\ layers = <<>>
    /\ attrs = <<>>
    /\ game = <<GameOf(TRUE, "none", <<>>, <<>>, <<"A", "B", "C">>)>>
    /\ answers = <<>>
    /\ batch = <<ConcurrentOf>>

SpecConcurrent == InitConcurrent /\ [][ConcurrentNext]_vars

----------------------------------------------------------------------------
(* Properties of the overlay state machine *)

HasEvent(tr, e) == \E i \in 1..Len(tr) : tr[i] = e

NonEmptyDir(d) == d \in Contents

\* the latest completed call, when there is one
LastCall == calls[Len(calls)]

\* what a probe reported: a state, or the kind of its error
Reported(r) == IF r.state = "Error" THEN r.kind ELSE r.state

\* the documented table of mount states over (original, shadow, mountpoint)
DocumentedState(o, s, m) ==
    CASE o = "absent" /\ NonEmptyDir(s) -> "Moved"
      [] o # "absent" /\ m /\ NonEmptyDir(s) -> "Mounted"
      [] o = "empty" /\ ~m /\ NonEmptyDir(s) -> "Moved"
      [] NonEmptyDir(o) /\ ~m /\ s \in {"absent", "empty"} -> "Normal"
      [] OTHER -> "MountState"

\* C1: every run of get_current_mounting_state whose OS calls (the mountpoint
\* probe, the removal of the empty original directory) could be carried out
\* reports exactly the entry of the documented table for (original, shadow,
\* mountpoint): Moved, Mounted, Normal, or a MountState error for every other
\* combination; a Process error arises only where such an OS call is made.
C1_ProbeMatchesTable ==
    \A i \in 1..Len(lastProbe) :
        LET in == lastProbe[i].in
            out == lastProbe[i].out
        IN /\ Reported(out) \in {DocumentedState(in.o, in.s, in.m), "Process"}
           /\ Reported(out) = "Process" => IsDir(in.o)
           /\ Reported(out) \in {"MountState", "Process"} => out.o = in.o

\* C1 witness: a probe of a layout with both directories non-empty was
\* rejected with a MountState error
C1_Witness ==
    /\ lastProbe # <<>>
    /\ NonEmptyDir(lastProbe[1].in.o)
    /\ NonEmptyDir(lastProbe[1].in.s)
    /\ ~lastProbe[1].in.m
    /\ Reported(lastProbe[1].out) = "MountState"

\* C2: in every state reachable from a Normal layout by activate and
\* deactivate calls, one at a time, failing or not, exactly one of the
\* original path and the shadow path holds the game files.
C2_ExactlyOneHoldsFiles ==
    (NonEmptyDir(orig) /\ ~NonEmptyDir(shadow)) \/ (~NonEmptyDir(orig) /\ NonEmptyDir(shadow))

\* C2 witness: a call failed after the files were moved to the shadow path
C2_Witness ==
    /\ calls # <<>>
    /\ LastCall.res = "Err"
    /\ HasEvent(LastCall.trace, "rename_out")
    /\ NonEmptyDir(shadow)
    /\ orig = "empty"

NormalLayout(l) == NonEmptyDir(l.o) /\ l.s \in {"absent", "empty"} /\ ~l.m

ActivateThenDeactivate ==
    /\ Len(calls) = 2
    /\ calls[1].op = "activate" /\ calls[1].res = "Ok" /\ NormalLayout(calls[1].pre)
    /\ calls[2].op = "deactivate" /\ calls[2].res = "Ok"

\* C3: round trip: after a successful activate from a Normal layout and a
\* successful deactivate, the game files are back at the original path with
\* the same content, the shadow path is absent and the original path is no
\* mountpoint.
C3_RoundTrip ==
    ActivateThenDeactivate =>
        calls[2].post = [o |-> calls[1].pre.o, s |-> "absent", m |-> FALSE]

\* C3 witness: such a round trip happened, through a mounted overlay
C3_Witness ==
    /\ ActivateThenDeactivate
    /\ calls[1].post.m
    /\ HasEvent(calls[2].trace, "rename_back")

DeactivateTwice ==
    /\ Len(calls) = 2
    /\ calls[1].op = "deactivate" /\ calls[1].res = "Ok"
    /\ calls[2].op = "deactivate"

\* C4: a deactivate called directly after a successful deactivate, whose
\* mountpoint probe can be executed, finds the state Normal, returns Ok and
\* performs no unmount, no rename and no directory removal: the layout and
\* the mount table are as before the call.
C4_DeactivateIdempotent ==
    DeactivateTwice /\ calls[2].kind # "Process" =>
        /\ NormalLayout(calls[2].pre)
        /\ calls[2].res = "Ok"
        /\ calls[2].trace = <<>>
        /\ calls[2].post = calls[2].pre

\* C4 witness: the first deactivate unmounted and moved the files back, the
\* second one returned Ok
C4_Witness ==
    /\ DeactivateTwice
    /\ calls[1].pre.m
    /\ calls[2].res = "Ok"

UmountBeforeMount(tr) ==
    \E i, j \in 1..Len(tr) : i < j /\ tr[i] = "umount" /\ tr[j] = "mount"

\* C5: whenever activate returns Ok, the original path is a mountpoint and the
\* shadow path holds the game files; when the call started from Mounted, the
\* unmount helper ran before the mount helper.
C5_ActivateOkIsMounted ==
    calls # <<>> /\ LastCall.op = "activate" /\ LastCall.res = "Ok" =>
        /\ LastCall.post.m
        /\ NonEmptyDir(LastCall.post.s)
        /\ LastCall.post.o = "empty"
        /\ LastCall.pre.m => UmountBeforeMount(LastCall.trace)
        /\ HasEvent(LastCall.trace, "mount")

\* C5 witness: an activate that started from Mounted returned Ok
C5_Witness ==
    /\ calls # <<>>
    /\ LastCall.op = "activate" /\ LastCall.res = "Ok"
    /\ LastCall.pre.m

\* C5 witness of the other start states is part of the same runs: an activate
\* that started from Moved returned Ok
C5_WitnessFromMoved ==
    /\ calls # <<>>
    /\ LastCall.op = "activate" /\ LastCall.res = "Ok"
    /\ ~NonEmptyDir(LastCall.pre.o) /\ ~LastCall.pre.m

ValidState(l) ==
    GetCurrentMountingState(l.o, l.s, l.m, "none").state \in {"Normal", "Moved", "Mounted"}

\* C6: crash resumability: the layout an invocation leaves behind when it is
\* killed between two steps is classified by get_current_mounting_state as
\* Normal, Moved or Mounted; a deactivate run after the kill never ends with
\* a MountState error, and when it returns Ok the layout is Normal with the
\* game files at the original path.
C6_CrashResumable ==
    /\ \A i \in 1..Len(calls) : calls[i].op = "killed" => ValidState(calls[i].post)
    /\ (Len(calls) = 2 /\ calls[1].op = "killed" /\ calls[2].op = "deactivate") =>
          /\ calls[2].kind # "MountState"
          /\ calls[2].res = "Ok" =>
                /\ NormalLayout(calls[2].post)
                /\ calls[2].post.o = calls[1].pre.o \/ calls[2].post.o = calls[1].pre.s

\* C6 witness: an invocation was killed with the empty original directory
\* recreated and nothing mounted, and the deactivate after it returned Ok
C6_Witness ==
    /\ Len(calls) = 2
    /\ calls[1].op = "killed"
    /\ calls[1].post.o = "empty" /\ ~calls[1].post.m /\ NonEmptyDir(calls[1].post.s)
    /\ calls[2].op = "deactivate" /\ calls[2].res = "Ok"

MountRan(c) == c.op = "activate" /\ HasEvent(c.trace, "mount")

\* C7: Overlay.mount returns Ok only if the helper exited with code 0 and the
\* mountpoint probe made after it reports a mountpoint; helper exit 0 without
\* a mountpoint gives a MountState error; a non-zero exit gives a Mount error.
C7_MountPostCondition ==
    calls # <<>> /\ MountRan(LastCall) =>
        /\ LastCall.res = "Ok" => (LastCall.hx = "zero" /\ LastCall.pm = "yes" /\ LastCall.post.m)
        /\ (LastCall.hx = "zero" /\ ~LastCall.post.m /\ LastCall.pm # "nospawn") =>
              (LastCall.res = "Err" /\ LastCall.kind = "MountState")
        /\ LastCall.hx = "nonzero" => (LastCall.res = "Err" /\ LastCall.kind = "Mount")

\* C7 witness: the helper exited 0, the path was no mountpoint, and the call
\* failed with a MountState error
C7_Witness ==
    /\ calls # <<>>
    /\ MountRan(LastCall)
    /\ LastCall.hx = "zero" /\ LastCall.pm = "no" /\ ~LastCall.post.m
    /\ LastCall.kind = "MountState"

\* C8: when the busy probe reports users of the overlay, unmount returns the
\* Used error without running the unmount helper, the overlay stays mounted,
\* deactivate surfaces the in-use error and no directory is moved or removed.
C8_BusyIsInUse ==
    calls # <<>> /\ LastCall.busy = "busy" =>
        /\ LastCall.res = "Err"
        /\ LastCall.kind = "Used"
        /\ LastCall.gerr = "Overlay in use."
        /\ ~HasEvent(LastCall.trace, "umount")
        /\ LastCall.post.m
        /\ LastCall.post = LastCall.pre
        /\ \A e \in {"rename_back", "rename_out", "rmdir", "cleanup_rmdir", "mkdir"} :
              ~HasEvent(LastCall.trace, e)

\* C8 witness: a deactivate of a mounted overlay met a busy overlay
C8_Witness ==
    /\ calls # <<>>
    /\ LastCall.op = "deactivate"
    /\ LastCall.busy = "busy"
    /\ LastCall.pre.m /\ mounted

----------------------------------------------------------------------------
(* Properties of the mod-set resolution *)

\* the sets that the members of set a name
RefSets(a) == {cfg[a][i] : i \in 1..Len(cfg[a])} \cap DOMAIN cfg

RECURSIVE ReachFrom(_, _)
\* the sets reachable from the sets in front through member references
ReachFrom(front, seen) ==
    LET new == (UNION {RefSets(a) : a \in front}) \ seen
    IN IF new = {} THEN seen ELSE ReachFrom(new, seen \cup new)

\* the sets that a reaches in one or more steps
Reaches(a) == ReachFrom({a}, {})

\* a reaches itself: directly or through other sets
Cyclic(a) == a \in Reaches(a)

\* no set among those in S has an empty member list or names a missing folder
NoOtherDefect(S) ==
    \A a \in S : /\ cfg[a] # <<>>
                /\ \A i \in 1..Len(cfg[a]) : cfg[a][i] \in Leaves => cfg[a][i] \in folders

\* C9 as stated: from_config started at a set that reaches itself returns a
\* recursion error, whatever else the configuration holds.
C9_CycleIsRecursionError ==
    \A i \in 1..Len(built) :
        Cyclic(built[i].root) => (~built[i].res.ok /\ built[i].res.kind = "recursion")

\* C9 amended: from_config started at a set that reaches itself, with an empty
\* visited set, never returns a ModSet: it returns an error, and the error is
\* the recursion error whenever no set reachable from the start has an empty
\* member list or names a missing mod folder.
C9_CycleFails ==
    \A i \in 1..Len(built) :
        LET a == built[i].root
            res == built[i].res
        IN Cyclic(a) =>
            /\ ~res.ok
            /\ res.kind \in {"recursion", "empty", "missing"}
            /\ NoOtherDefect(Reaches(a) \cup {a}) => res.kind = "recursion"

\* C9 witness: A names B and B names A; the construction started at A failed
\* with the recursion error
C9_Witness ==
    /\ built # <<>>
    /\ built[1].root = "A"
    /\ cfg["A"] = <<"B">> /\ cfg["B"] = <<"A">>
    /\ built[1].res.kind = "recursion"

\* C9 witness of the root case: A names itself, which the caller did not put
\* into visited
C9_WitnessRoot ==
    /\ built # <<>>
    /\ built[1].root = "A"
    /\ cfg["A"] = <<"m1", "A">>
    /\ folders = Leaves
    /\ built[1].res.kind = "recursion"

RECURSIVE SplitLayers(_, _, _)
\* the layers of a mount string: the pieces between colons that are not
\* escaped by a backslash; cur is the piece being read
SplitLayers(s, i, cur) ==
    IF i > Len(s) THEN (IF cur = <<>> THEN <<>> ELSE <<cur>>)
    ELSE IF s[i] = "\\" /\ i < Len(s)
    THEN SplitLayers(s, i + 2, cur \o <<s[i], s[i + 1]>>)
    ELSE IF s[i] = ":"
    THEN <<cur>> \o SplitLayers(s, i + 1, <<>>)
    ELSE SplitLayers(s, i + 1, Append(cur, s[i]))

RECURSIVE LeavesOf(_)
\* the leaf mod folders reachable from a constructed tree
LeavesOf(set) ==
    {set.mods[i] : i \in {j \in 1..Len(set.mods) : set.mods[j] \notin DOMAIN set.mod_sets}}
    \cup UNION {LeavesOf(set.mod_sets[n]) : n \in DOMAIN set.mod_sets}

Occurrences(seq, x) == Cardinality({i \in 1..Len(seq) : seq[i] = x})

\* C10: for every constructed tree, each distinct leaf folder reachable from
\* the root is exactly one layer of the string built by get_mount_string.
C10_EachLeafOneLayer ==
    \A i \in 1..Len(layers) :
        \A leaf \in LeavesOf(built[i].res.set) :
            Occurrences(SplitLayers(layers[i], 1, <<>>), Escape(PathJoin(RootPath, leaf))) = 1

RECURSIVE PreOrderLeaves(_)
\* the leaf folders met in a depth-first, pre-order walk of the member lists
\* of the configuration, from set a (of an acyclic part of the configuration)
PreOrderLeaves(a) ==
    LET RECURSIVE walk(_)
        walk(i) ==
            IF i > Len(cfg[a]) THEN <<>>
            ELSE (IF cfg[a][i] \in DOMAIN cfg THEN PreOrderLeaves(cfg[a][i])
                  ELSE <<cfg[a][i]>>) \o walk(i + 1)
    IN walk(1)

\* a sequence without the later occurrences of its elements
FirstOccurrences(seq) ==
    LET RECURSIVE keep(_)
        keep(i) ==
            IF i > Len(seq) THEN <<>>
            ELSE (IF \E j \in 1..(i - 1) : seq[j] = seq[i] THEN <<>> ELSE <<seq[i]>>)
                 \o keep(i + 1)
    IN keep(1)

\* the layers that the leaves of a walk stand for
LayersOfLeaves(seq) == [i \in 1..Len(seq) |-> Escape(PathJoin(RootPath, seq[i]))]

\* C11: the layers of the string built by get_mount_string are the leaf
\* folders of the depth-first, pre-order walk of the member lists, each at its
\* first occurrence only.
C11_LayersInPreOrder ==
    \A i \in 1..Len(layers) :
        SplitLayers(layers[i], 1, <<>>)
            = LayersOfLeaves(FirstOccurrences(PreOrderLeaves(built[i].root)))

\* the sets that take part in the construction started at a
ReachedSets(a) == Reaches(a) \cup {a}

Acyclic(a) == \A b \in ReachedSets(a) : ~Cyclic(b)

\* every leaf folder named by a set in S exists under the mod root
LeafFoldersExist(S) ==
    \A a \in S : \A i \in 1..Len(cfg[a]) : cfg[a][i] \notin DOMAIN cfg => cfg[a][i] \in folders

SomeListEmpty(S) == \E a \in S : cfg[a] = <<>>

SomeCommandUndefined(S) ==
    \E a \in S : attrs[a].command # <<>> /\ attrs[a].command[1] \notin gcfg.commands

\* C12 as stated: every acyclic reference graph whose leaf folders all exist
\* is constructed successfully.
C12_AcyclicSucceeds ==
    \A i \in 1..Len(built) :
        LET a == built[i].root
        IN Acyclic(a) /\ LeafFoldersExist(ReachedSets(a)) => built[i].res.ok

\* C12 amended: every acyclic reference graph whose leaf folders all exist,
\* whose member lists are non-empty and whose named commands are defined is
\* constructed successfully, also with a set named from sibling branches or
\* twice in one list; no acyclic graph is reported as a recursion.
C12_NoFalseCycle ==
    \A i \in 1..Len(built) :
        LET a == built[i].root
            S == ReachedSets(a)
        IN Acyclic(a) =>
            /\ built[i].res.kind # "recursion"
            /\ (LeafFoldersExist(S) /\ ~SomeListEmpty(S) /\ ~SomeCommandUndefined(S))
                  => built[i].res.ok

\* C12 witness: C is named by A and by A's member B, and the tree of A is built
C12_Witness ==
    /\ built # <<>>
    /\ built[1].root = "A"
    /\ cfg["A"] = <<"B", "C">> /\ cfg["B"] = <<"C">>
    /\ built[1].res.ok

\* C12 witness: B is named twice in the member list of A
C12_WitnessTwice ==
    /\ built # <<>>
    /\ built[1].root = "A"
    /\ cfg["A"] = <<"B", "B">>
    /\ built[1].res.ok

\* C13: when the set being built, or a set nested in it, has an empty member
\* list, names a leaf without a folder under the mod root, or names a command
\* that the game configuration does not define, from_config returns an error
\* value: no ModSet, and no abort of the process.
C13_DefectsAreErrors ==
    \A i \in 1..Len(built) :
        LET S == ReachedSets(built[i].root)
            res == built[i].res
        IN (SomeListEmpty(S) \/ ~LeafFoldersExist(S) \/ SomeCommandUndefined(S)) =>
              /\ ~res.ok
              /\ res.kind \in {"empty", "missing", "command", "recursion"}

\* C13 witness: the only defect is the undefined command of B, which is
\* nested in A; the construction of A failed with the command error
C13_Witness ==
    /\ built # <<>>
    /\ built[1].root = "A"
    /\ cfg["A"] = <<"m1", "B">>
    /\ attrs["A"].command = <<>>
    /\ attrs["B"].command = <<UnknownCommand>>
    /\ ~built[1].res.ok /\ built[1].res.kind = "command"

\* the last query, when it was q
Answered(q) == answers # <<>> /\ answers[1].q = q

\* the child sets of a node in the order of its member list, each once
ChildrenInMemberOrder(set) ==
    FirstOccurrences(SelectSeq(set.mods, LAMBDA n : n \in DOMAIN set.mod_sets))

RECURSIVE CommandsInMemberOrder(_)
\* the documented command list of a node: the lists of the child sets in
\* member order, then the node's own command unless the list holds it
CommandsInMemberOrder(set) ==
    LET kids == ChildrenInMemberOrder(set)
        RECURSIVE collect(_)
        collect(i) == IF i > Len(kids) THEN <<>>
                      ELSE CommandsInMemberOrder(set.mod_sets[kids[i]]) \o collect(i + 1)
        below == collect(1)
    IN IF set.command # <<>> /\ \A i \in 1..Len(below) : below[i] # set.command[1]
       THEN Append(below, set.command[1])
       ELSE below

\* C14: get_commands returns the commands of the descendant sets before the
\* node's own command, the contributions of the child sets in the order of
\* the member list.
C14_CommandsInMemberOrder ==
    Answered("get_commands") =>
        answers[1].v = CommandsInMemberOrder(game[1].mod_tree[1])

RECURSIVE CommandsBelow(_)
\* the commands that the descendant sets of a node name
CommandsBelow(set) ==
    UNION {(IF set.mod_sets[n].command = <<>> THEN {} ELSE {set.mod_sets[n].command[1]})
           \cup CommandsBelow(set.mod_sets[n]) : n \in DOMAIN set.mod_sets}

\* C15: when a node and one of its descendant sets name the same command,
\* the list of get_commands on the node holds that command exactly once.
C15_SharedCommandOnce ==
    Answered("get_commands") =>
        LET node == game[1].mod_tree[1]
        IN (node.command # <<>> /\ node.command[1] \in CommandsBelow(node)) =>
              Occurrences(answers[1].v, node.command[1]) = 1

\* the value that ExternalCommand::run gives variable k: Command::env of the
\* pairs in order, the last one stays; <<>> when no pair sets k
EffectiveValue(pairs, k) ==
    LET at == {i \in 1..Len(pairs) : pairs[i][1] = k}
    IN IF at = {} THEN <<>>
       ELSE <<pairs[CHOOSE i \in at : \A j \in at : j <= i][2]>>

RECURSIVE DocumentedValue(_, _, _)
\* the documented precedence for variable k at the node of set id: the value
\* of the last-listed child set whose merged environment has k, else the
\* node's own value
DocumentedValue(id, set, k) ==
    LET having == {i \in 1..Len(set.mods) :
                      /\ set.mods[i] \in DOMAIN set.mod_sets
                      /\ DocumentedValue(set.mods[i], set.mod_sets[set.mods[i]], k) # <<>>}
    IN IF having # {}
       THEN LET last == CHOOSE i \in having : \A j \in having : j <= i
            IN DocumentedValue(set.mods[last], set.mod_sets[set.mods[last]], k)
       ELSE IF \E p \in attrs[id].environment : p[1] = k
            THEN <<(CHOOSE p \in attrs[id].environment : p[1] = k)[2]>>
            ELSE <<>>

\* C16: the environment that wrap adds to the wrapped command gives every
\* variable the value of the documented precedence: a child set's value wins
\* over the parent's own, a later-listed child wins over an earlier one.
C16_EnvironmentPrecedence ==
    Answered("wrap_environment") =>
        \A k \in {"X", "Y"} :
            EffectiveValue(answers[1].v, k)
                = DocumentedValue(game[1].active_set[1], game[1].mod_tree[1], k)

\* C16 witness: A sets X=1 and includes B, which sets X=2; the wrapped
\* command got X=2
C16_Witness ==
    /\ Answered("wrap_environment")
    /\ cfg["A"] = <<"B", "m1">> /\ cfg["B"] = <<"m1">>
    /\ attrs["A"].environment = {<<"X", "1">>}
    /\ <<"X", "2">> \in attrs["B"].environment
    /\ EffectiveValue(answers[1].v, "X") = <<"2">>

\* C17: should_be_writable() of the tree is true exactly when the writable
\* flag is set on the root set or on a set it reaches at any depth, and
\* should_run_pre_commands() exactly when the run_pre_command flag is.
C17_FlagsAggregate ==
    /\ Answered("should_be_writable") =>
          (answers[1].v <=> \E s \in ReachedSets(game[1].active_set[1]) : attrs[s].writable)
    /\ Answered("should_run_pre_commands") =>
          (answers[1].v <=>
              \E s \in ReachedSets(game[1].active_set[1]) : attrs[s].run_pre_command)

\* C17 witness: only the grandchild C of A (through B) is writable, and the
\* tree of A answered that it should be writable
C17_Witness ==
    /\ Answered("should_be_writable") /\ answers[1].v
    /\ cfg["A"] = <<"B", "m1">> /\ cfg["B"] = <<"C">>
    /\ attrs["C"].writable /\ ~attrs["A"].writable /\ ~attrs["B"].writable

\* get_mount_string answered for a mount that is not writable: neither asked
\* for, nor configured for the game, nor for a set of the tree
AnsweredReadOnly ==
    /\ Answered("get_mount_string")
    /\ answers[1].v.res.ok
    /\ ~answers[1].v.writable
    /\ ~gcfg.writable
    /\ game[1].mod_tree # <<>> =>
          ~\E s \in ReachedSets(game[1].active_set[1]) : attrs[s].writable

RECURSIVE LayerTokens(_)
\* one token ",lowerdir+=<path>" for each leaf folder of a walk, in order
LayerTokens(leaves) ==
    IF leaves = <<>> THEN <<>>
    ELSE <<",", "lowerdir+=">>
         \o EscapeSpecialMountChars(PathJoin(RootPath, Head(leaves)))
         \o LayerTokens(Tail(leaves))

\* C18: with an active set the option string for the mount helper is the
\* prefix, then one token ",lowerdir+=<path>" for each flattened mod layer in
\* layer order, then the token ",lowerdir+=<shadow path>" as the last layer.
C18_MountOptionLayout ==
    (AnsweredReadOnly /\ HasTree) =>
        answers[1].v.res.s
            = MountOptionsPrefix
              \o LayerTokens(FirstOccurrences(PreOrderLeaves(game[1].active_set[1])))
              \o <<",", "lowerdir+=">> \o EscapeSpecialMountChars(MovedPath)

\* the option string without a set: prefix, shadow layer, empty dummy layer
ModlessOptions ==
    MountOptionsPrefix
    \o <<",", "lowerdir+=">> \o EscapeSpecialMountChars(MovedPath)
    \o <<",", "lowerdir+=">>
    \o EscapeSpecialMountChars(CacheDirectory("mod-manager_empty_dummy"))

\* the Game was constructed for set name sel, or failed because the
\* configuration has no such key
SelectedSet(sel) ==
    IF sel \in DOMAIN cfg
    THEN game[1].ok => (game[1].active_set = <<sel>> /\ built[1].root = sel)
    ELSE ~game[1].ok /\ game[1].kind = "notfound"

\* the Game was constructed without a set
SelectedNone ==
    game[1].ok /\ game[1].active_set = <<>> /\ game[1].mod_tree = <<>>

\* C19: a non-empty override selects that set whatever 'active' says; an
\* empty override selects no set; without an override 'active' is used, and an
\* empty or missing 'active' means no set. Without a set a mount that is not
\* writable gets the prefix, the shadow layer and one dummy layer. A selected
\* name that is no key of the configuration fails the construction.
C19_ActiveSetSelection ==
    game # <<>> =>
        /\ (gcfg.set_override # <<>> /\ gcfg.set_override[1] # "")
              => SelectedSet(gcfg.set_override[1])
        /\ gcfg.set_override = <<"">> => SelectedNone
        /\ (gcfg.set_override = <<>> /\ gcfg.active # <<>> /\ gcfg.active[1] # "")
              => SelectedSet(gcfg.active[1])
        /\ (gcfg.set_override = <<>> /\ gcfg.active \in {<<>>, <<"">>}) => SelectedNone
        /\ (AnsweredReadOnly /\ game[1].active_set = <<>>)
              => answers[1].v.res.s = ModlessOptions

\* C19 witness: the configuration names A as active, the override is the
\* empty string, and the mount string was built without a set
C19_Witness ==
    /\ gcfg.set_override = <<"">> /\ gcfg.active = <<"A">>
    /\ AnsweredReadOnly
    /\ answers[1].v.res.s = ModlessOptions

\* C19 witness: the override B wins over the configured A
C19_WitnessOverride ==
    /\ gcfg.set_override = <<"B">> /\ gcfg.active = <<"A">>
    /\ game # <<>> /\ game[1].ok /\ game[1].active_set = <<"B">>

\* C19 witness: the configured set is no key of the configuration
C19_WitnessNotFound ==
    /\ gcfg.set_override = <<>> /\ gcfg.active = <<"Z">>
    /\ game # <<>> /\ ~game[1].ok

RECURSIVE SplitTokens(_, _, _)
\* the tokens of an option string: the pieces between the commas that are
\* not escaped by a backslash; cur is the piece being read
SplitTokens(s, i, cur) ==
    IF i > Len(s) THEN <<cur>>
    ELSE IF s[i] = "\\" /\ i < Len(s)
    THEN SplitTokens(s, i + 2, cur \o <<s[i], s[i + 1]>>)
    ELSE IF s[i] = ","
    THEN <<cur>> \o SplitTokens(s, i + 1, <<>>)
    ELSE SplitTokens(s, i + 1, Append(cur, s[i]))

\* the paths that the option string of a read-only mount is made of: the mod
\* layers of the active set, the shadow path, the dummy path without a set
PathsOfOptions ==
    (IF game[1].mod_tree # <<>>
     THEN LET leaves == FirstOccurrences(PreOrderLeaves(game[1].active_set[1]))
          IN [i \in 1..Len(leaves) |-> PathJoin(RootPath, leaves[i])]
     ELSE <<>>)
    \o <<MovedPath>>
    \o (IF game[1].mod_tree = <<>> THEN <<CacheDirectory("mod-manager_empty_dummy")>>
        ELSE <<>>)

\* every path of the option string is in it with its commas escaped
PathsAreEscaped ==
    \A i \in 1..Len(PathsOfOptions) :
        Contains(answers[1].v.res.s, EscapeSpecialMountChars(PathsOfOptions[i]))

\* the tokens of the option string are the two of the prefix and one
\* "lowerdir+=<path>" for each path
TokensAreIntended ==
    SplitTokens(answers[1].v.res.s, 1, <<>>)
        = <<<<"x-gvfs-hide">>, <<"comment=x-gvfs-hide">>>>
          \o [i \in 1..Len(PathsOfOptions) |->
                <<"lowerdir+=">> \o EscapeSpecialMountChars(PathsOfOptions[i])]

\* C20: in the option string for the mount helper every comma of a path (mod
\* layer under a mod root with a comma, mod folder name with a comma, shadow
\* path, dummy path) is written as backslash-comma, so that the pieces between
\* the unescaped commas are exactly the intended tokens.
C20_CommasEscaped ==
    AnsweredReadOnly => (PathsAreEscaped /\ TokensAreIntended)

\* the option string s has the tokens of a writable mount: an upperdir and a
\* workdir option, in that order, and index=off,metacopy=off at its end
HasWritableTokens(s) ==
    /\ \E i, j \in 1..Len(s) :
          /\ i < j
          /\ s[i] = "upperdir=" /\ s[i - 1] = ","
          /\ s[j] = "workdir=" /\ s[j - 1] = ","
    /\ Len(s) > 4
    /\ SubSeq(s, Len(s) - 3, Len(s)) = <<",", "index=off", ",", "metacopy=off">>

\* a writable mount is asked for: by the argument of activate, by the game's
\* flag, or by the flag of a set of the active tree
WritableAsked ==
    \/ answers[1].v.writable
    \/ gcfg.writable
    \/ /\ game[1].mod_tree # <<>>
       /\ \E a \in ReachedSets(game[1].active_set[1]) : attrs[a].writable

\* C21: the option string has upperdir=<path>,workdir=<path>,index=off,
\* metacopy=off exactly when the writable argument, the game's writable flag
\* or should_be_writable() of the active tree is true; otherwise it has no
\* upperdir and no workdir token.
C21_WritableMode ==
    (Answered("get_mount_string") /\ answers[1].v.res.ok) =>
        LET s == answers[1].v.res.s
        IN /\ WritableAsked <=> HasWritableTokens(s)
           /\ ~WritableAsked =>
                 \A i \in 1..Len(s) : s[i] \notin {"upperdir=", "workdir="}

\* C21 witness: neither the argument nor the game is writable, set B of the
\* tree of A is, and the option string has the writable tokens
C21_Witness ==
    /\ Answered("get_mount_string") /\ answers[1].v.res.ok
    /\ ~answers[1].v.writable /\ ~gcfg.writable
    /\ game[1].active_set = <<"A">> /\ ~attrs["A"].writable /\ attrs["B"].writable
    /\ HasWritableTokens(answers[1].v.res.s)

----------------------------------------------------------------------------
(* Properties of the pre-commands and of the batch *)

\* the process ids of the children that a command log holds
ChildrenOf(log) == {log[i].child[1] : i \in {j \in 1..Len(log) : log[j].child # <<>>}}

\* invocation p returns from the call of op in this step
Returns(p, op) ==
    /\ proc[p].pc # "idle" /\ proc[p].op = op
    /\ proc'[p].pc = "idle"

\* the call that returned in this step
Returned == calls'[Len(calls')]

\* the locals of invocation p after its step, also when the call returned
After(p) == IF proc'[p].pc = "idle" THEN Returned ELSE proc'[p]

\* every marker of the runtime directory is named by the id of a process
OnlyProcessMarkers == \A f \in runtime : ParsePid(f) # <<>> /\ ParsePid(f)[1] > 0

\* one step of the pre-command phase and of the cleanup keeps the markers
\* right
MarkersTracked(p) ==
    /\ runtime' \ runtime \subseteq
          UNION {{PidName(q) : q \in ChildrenOf(proc[r].cmdlog)} :
                    r \in {r \in Procs : proc[r].pc = "a_markers"}}
    /\ (Returns(p, "activate") /\ Returned.res = "Ok") =>
          /\ \A i \in 1..Len(Returned.cmdlog) :
                LET e == Returned.cmdlog[i]
                IN e.child # <<>> <=> (e.ok /\ e.id \notin gcfg.wait_for_exit)
          /\ Returned.marked = ChildrenOf(Returned.cmdlog)
          /\ \A q \in Returned.marked \ Returned.markfail : PidName(q) \in runtime'
    /\ (proc[p].pc = "d_pids" /\ OnlyProcessMarkers /\ After(p).seen = runtime) =>
          After(p).sig = {ParsePid(f)[1] : f \in runtime}

\* C24: in the pre-command phase of activate a marker named by the process id
\* is written for every pre-command that was spawned and is not waited for
\* (when the marker file can be written), and for no other command; a later
\* deactivate that can read the runtime directory sends the termination
\* signal to the process of every marker.
C24_PidTracking == [][\A p \in Procs : MarkersTracked(p)]_vars

\* C24 witness: the activate of a game with own commands returned, and the
\* deactivate after it has sent signals to the processes of its markers
C24_Witness ==
    /\ gcfg.pre_command # <<>>
    /\ Len(calls) = 2
    /\ calls[1].op = "activate" /\ calls[1].res = "Ok"
    /\ calls[2].op = "deactivate" /\ Cardinality(calls[2].sig) >= 2

\* C24 witness: a command that is waited for and one that is not were
\* spawned, and the runtime directory holds the marker of the second only
C24_WitnessWaited ==
    /\ calls # <<>> /\ calls[Len(calls)].op = "activate"
    /\ LET log == calls[Len(calls)].cmdlog
       IN /\ \E i \in 1..Len(log) : log[i].ok /\ log[i].waited
          /\ Cardinality(ChildrenOf(log)) = 1
          /\ runtime = {PidName(q) : q \in ChildrenOf(log)}

\* C25: whatever the runtime directory holds, the cleanup phase of deactivate
\* neither returns an error nor aborts the call: the step over the marker
\* files always goes on to the probe of the unmount/move-back phase.
C25_CleanupNeverFatal ==
    [][\A p \in Procs : proc[p].pc = "d_pids" => proc'[p].pc = "d_probe1"]_vars

\* the working directory is "/" when event i of the trace happens: a change
\* to "/" came before it and no change back since
CwdIsRootAt(tr, i) ==
    \E j \in 1..(i - 1) :
        /\ tr[j] = "cwd_root"
        /\ \A k \in (j + 1)..(i - 1) : tr[k] # "cwd_back"

HelperEvents == {"mount", "umount", "lsof"}

CwdChangedBeforeHelpers(tr) ==
    \A i \in 1..Len(tr) : tr[i] \in HelperEvents => CwdIsRootAt(tr, i)

\* C30: whenever the mount helper or the unmount helper is invoked, the
\* working directory of the process has been changed to "/" before and not
\* back since; in unmount the busy probe (lsof) too comes after that change.
C30_CwdChangedFirst ==
    /\ \A p \in Procs : CwdChangedBeforeHelpers(proc[p].trace)
    /\ \A i \in 1..Len(calls) : CwdChangedBeforeHelpers(calls[i].trace)

\* C30 witness: an activate of a mounted game has unmounted, changed the
\* working directory back, and mounted again
C30_Witness ==
    /\ calls # <<>> /\ LastCall.op = "activate" /\ LastCall.res = "Ok"
    /\ LET tr == LastCall.trace
       IN \E i, j, k, l \in 1..Len(tr) :
            /\ i < j /\ j < k /\ k < l
            /\ tr[i] = "lsof" /\ tr[j] = "umount" /\ tr[k] = "cwd_back" /\ tr[l] = "mount"

\* the events that the step of invocation p adds to its trace
NewEvents(p) ==
    LET tr == After(p).trace
    IN {tr[i] : i \in (Len(proc[p].trace) + 1)..Len(tr)}

\* the steps of activate before the original directory is created: its three
\* probes, the rename and the deactivate of a mounted overlay
BeforeCreateDir(p) ==
    \/ proc[p].pc \in {"a_probe1", "a_probe2", "a_rename", "a_probe3"}
    \/ proc[p].nested

MountOnlyFromMoved(p) ==
    proc[p].op = "activate" =>
        \* the directory is created and the helper invoked with Moved as the
        \* last state read in this call
        /\ NewEvents(p) \cap {"mkdir", "mount"} # {} => proc[p].st = "Moved"
        /\ "mkdir" \in NewEvents(p) =>
               lastProbe # <<>> /\ lastProbe[1].out.state = "Moved"
        \* a third probe that reads another state ends the call
        /\ (proc[p].pc = "a_probe3" /\ lastProbe' # <<>>
                /\ lastProbe'[1].out.state # "Moved") =>
               Returns(p, "activate")
        \* a call that ends before the directory is created is an error and
        \* has neither created the directory nor invoked the helper
        /\ (BeforeCreateDir(p) /\ Returns(p, "activate") /\ Returned.op = "activate") =>
               /\ Returned.res = "Err"
               /\ ~HasEvent(Returned.trace, "mkdir")
               /\ ~HasEvent(Returned.trace, "mount")

\* C26: in one call of activate the original directory is created and the
\* mount helper invoked only after the state was read as Moved in that call;
\* when the third probe reads anything else, or a probe, the deactivate of a
\* mounted overlay or the rename fails, activate returns an error and has
\* neither created the directory nor invoked the mount helper.
C26_MountOnlyFromMoved == [][\A p \in Procs : MountOnlyFromMoved(p)]_vars

\* C26 witness: the third probe of an activate read a state other than Moved
\* and the call returned an error without directory and without mount
C26_Witness ==
    /\ calls # <<>> /\ LastCall.op = "activate" /\ LastCall.res = "Err"
    /\ lastProbe # <<>> /\ lastProbe[1].out.state \in {"Normal", "Mounted"}
    /\ ~HasEvent(LastCall.trace, "mkdir")

\* C26 witness: the third probe read Moved and the helper was invoked
C26_WitnessMoved ==
    /\ calls # <<>> /\ LastCall.op = "activate" /\ LastCall.pre.m
    /\ HasEvent(LastCall.trace, "mkdir") /\ HasEvent(LastCall.trace, "mount")

\* the traces of the activations that run or have returned
ActivateTraces ==
    {proc[p].trace : p \in {q \in Procs : proc[q].op = "activate"}}
    \cup {calls[i].trace : i \in {j \in 1..Len(calls) : calls[j].op = "activate"}}

\* the helper cleanworkdir has run and succeeded before event i of the trace
CleanedBefore(tr, i) == \E j \in 1..(i - 1) : tr[j] = "cleanworkdir_ok"

CleanBeforeMount(tr) ==
    /\ WritableMount(gcfg.cli_writable) =>
          \A i \in 1..Len(tr) : tr[i] = "mount" => CleanedBefore(tr, i)
    /\ (HasEvent(tr, "cleanworkdir") /\ ~HasEvent(tr, "cleanworkdir_ok")) =>
          ~HasEvent(tr, "mount")
    /\ ~WritableMount(gcfg.cli_writable) => ~HasEvent(tr, "cleanworkdir")

\* C27: an activation that mounts in writable mode invokes the mount helper
\* only after the cleanworkdir helper has run and succeeded; when
\* cleanworkdir fails the mount helper is not invoked and activate returns an
\* error; an activation that is not writable never invokes cleanworkdir.
C27_CleanBeforeMount ==
    /\ \A tr \in ActivateTraces : CleanBeforeMount(tr)
    /\ \A i \in 1..Len(calls) :
          (/\ calls[i].op = "activate"
           /\ HasEvent(calls[i].trace, "cleanworkdir")
           /\ ~HasEvent(calls[i].trace, "cleanworkdir_ok")) => calls[i].res = "Err"

\* C27 witness: a writable activation has cleaned the work directory and
\* mounted
C27_Witness ==
    /\ calls # <<>> /\ calls[1].op = "activate" /\ calls[1].res = "Ok"
    /\ WritableMount(gcfg.cli_writable)
    /\ \E i, j \in 1..Len(calls[1].trace) :
          i < j /\ calls[1].trace[i] = "cleanworkdir_ok" /\ calls[1].trace[j] = "mount"

\* C27 witness: cleanworkdir failed and the activation returned an error
C27_WitnessFailed ==
    /\ calls # <<>> /\ calls[1].op = "activate" /\ calls[1].res = "Err"
    /\ HasEvent(calls[1].trace, "cleanworkdir")
    /\ ~HasEvent(calls[1].trace, "cleanworkdir_ok")

\* C27 witness: an activation that is not writable has mounted
C27_WitnessReadOnly ==
    /\ calls # <<>> /\ calls[1].op = "activate" /\ calls[1].res = "Ok"
    /\ ~WritableMount(gcfg.cli_writable)
    /\ HasEvent(calls[1].trace, "mount")

\* the records of the activations that run or have returned
Activations ==
    {proc[p] : p \in {q \in Procs : proc[q].op = "activate"}}
    \cup {calls[i] : i \in {j \in 1..Len(calls) : calls[j].op = "activate"}}

\* the activations that have returned
ActivationsDone == {calls[i] : i \in {j \in 1..Len(calls) : calls[j].op = "activate"}}

IsOwn(e) == e.src = "own"

\* the names of the own commands of a command log, in the order of their start
OwnIds(log) ==
    LET own == SelectSeq(log, IsOwn)
    IN [i \in 1..Len(own) |-> own[i].id]

IsPrefix(a, b) == Len(a) <= Len(b) /\ a = SubSeq(b, 1, Len(a))

\* Overlay::mount returned success in the activation c
MountSucceeded(c) ==
    /\ c.trace # <<>> /\ c.trace[Len(c.trace)] = "cwd_back"
    /\ HasEvent(c.trace, "mount")
    /\ c.hx = "zero" /\ c.pm = "yes"

\* no command of the tree is started before an own command
OwnBeforeTree(log) ==
    \A i, j \in 1..Len(log) : (log[i].src = "tree" /\ log[j].src = "own") => j < i

\* C28 as stated: no pre-command is started unless Overlay::mount returned
\* success, and in an activation that has run pre-commands every entry of the
\* game's own pre_command list was started, in configured order, before any
\* command of the tree.
C28_OwnListFirst ==
    /\ \A c \in Activations : c.cmdlog # <<>> => MountSucceeded(c) /\ OwnBeforeTree(c.cmdlog)
    /\ \A c \in ActivationsDone : c.cmdlog # <<>> => OwnIds(c.cmdlog) = gcfg.pre_command

\* C28, amended: no pre-command is started unless Overlay::mount returned
\* success; the entries of the own list are started only when the flag is
\* set in the game configuration or on a set of the tree, and then all of
\* them, in configured order, before any command of the tree.
C28_OwnListFirstIfEnabled ==
    /\ \A c \in Activations :
          c.cmdlog # <<>> =>
             /\ MountSucceeded(c)
             /\ OwnBeforeTree(c.cmdlog)
             /\ IsPrefix(OwnIds(c.cmdlog), gcfg.pre_command)
    /\ \A c \in ActivationsDone :
          c.cmdlog # <<>> =>
             OwnIds(c.cmdlog) = IF GameShouldRunPreCommands THEN gcfg.pre_command ELSE <<>>

\* C28 witness: an activation has started its two own commands and then the
\* command of the tree
C28_Witness ==
    \E c \in ActivationsDone :
        /\ Len(c.cmdlog) = 3
        /\ c.cmdlog[1].src = "own" /\ c.cmdlog[2].src = "own" /\ c.cmdlog[3].src = "tree"

\* C28 witness: with the flag unset everywhere the command of the tree was
\* started and the own list was not
C28_WitnessTreeOnly ==
    \E c \in ActivationsDone :
        /\ ~GameShouldRunPreCommands /\ gcfg.pre_command # <<>>
        /\ Len(c.cmdlog) = 1 /\ c.cmdlog[1].src = "tree"

\* the sets of the active tree, from the configuration
ActiveTreeSets ==
    IF game[1].active_set # <<>> /\ game[1].active_set[1] \in DOMAIN cfg
    THEN ReachedSets(game[1].active_set[1])
    ELSE {}

\* the flag is set in the game configuration or on a set of the active tree
FlagSetSomewhere ==
    gcfg.run_pre_commands \/ \E s \in ActiveTreeSets : attrs[s].run_pre_command

\* C29 as stated: a pre-command, of the own list or of the tree, is started
\* only if the run-pre-commands flag is set in the game configuration or on a
\* set of the active tree.
C29_OnlyWhenFlagSet ==
    \A c \in Activations : c.cmdlog # <<>> => FlagSetSomewhere

\* C29, amended: a command of the own list is started only if the flag is set
\* in the game configuration or on a set of the active tree; a command of the
\* tree is started only if a set of the active tree names it, with or
\* without the flag.
C29_OwnOnlyWhenFlagSet ==
    \A c \in Activations : \A i \in 1..Len(c.cmdlog) :
        LET e == c.cmdlog[i]
        IN /\ e.src = "own" => FlagSetSomewhere
           /\ e.src = "tree" => \E s \in ActiveTreeSets : attrs[s].command = <<e.id>>

\* C29 witness: the flag is set on a set below the active set only, and the
\* own commands were started
C29_Witness ==
    \E c \in ActivationsDone :
        /\ ~gcfg.run_pre_commands /\ attrs["B"].run_pre_command
        /\ \E i \in 1..Len(c.cmdlog) : c.cmdlog[i].src = "own"

\* C29 witness: the flag is unset everywhere and the named command of set A
\* was spawned
C29_WitnessNoFlag ==
    \E c \in ActivationsDone :
        /\ ~FlagSetSomewhere
        /\ \E i \in 1..Len(c.cmdlog) :
              c.cmdlog[i].src = "tree" /\ c.cmdlog[i].ok /\ c.cmdlog[i].id = "c1"

\* what main has done so far in the batch
BatchOut == batch[1].out

IsActivateCall(e) == e.kind = "call" /\ e.op = "activate"

IsDeactivateCall(e) == e.kind = "call" /\ e.op = "deactivate"

\* the games of a sequence of events, in order
GamesOf(evs) == [i \in 1..Len(evs) |-> evs[i].g]

UpTo(n) == [i \in 1..n |-> i]

BatchGames == 1..Len(batch[1].disk)

BatchDone == batch[1].phase = "done"

\* the positions at which main printed the error of a failed activate
ActivateReports ==
    {i \in 1..Len(BatchOut) : BatchOut[i].kind = "report" /\ BatchOut[i].op = "activate"}

DeactivateCalls == {i \in 1..Len(BatchOut) : IsDeactivateCall(BatchOut[i])}

\* the activation of a game of the batch has failed
FailedActivation == batch[1].action = "activate" /\ ActivateReports # {}

\* after the failed activate no further game is activated: the games 1..k
\* were activated in order and the error is that of game k
NoActivateAfterFailure ==
    \A r \in ActivateReports :
        /\ GamesOf(SelectSeq(BatchOut, IsActivateCall)) = UpTo(BatchOut[r].g)
        /\ \A i \in 1..Len(BatchOut) : IsActivateCall(BatchOut[i]) => i < r

\* when main returns, deactivate was invoked once for every game of the batch
AllDeactivated ==
    BatchDone => GamesOf(SelectSeq(BatchOut, IsDeactivateCall)) = UpTo(Len(batch[1].disk))

\* every deactivation of the batch succeeded
DeactivationsSucceeded ==
    \A i \in 1..Len(BatchOut) :
        ~(BatchOut[i].kind = "report" /\ BatchOut[i].op = "deactivate")

NoneLeftActive ==
    (BatchDone /\ DeactivationsSucceeded) =>
        \A g \in BatchGames :
            LET d == batch[1].disk[g]
            IN DocumentedState(d.o, d.s, d.m) \notin {"Mounted", "Moved"}

\* C22 as stated: after a failed activation no further game is activated,
\* deactivate is invoked for every game of the batch, all of that before the
\* error is surfaced, and if those deactivations succeed no game is left
\* Mounted or Moved.
C22_DeactivateBeforeError ==
    (batch # <<>> /\ FailedActivation) =>
        /\ NoActivateAfterFailure
        /\ AllDeactivated
        /\ \A r \in ActivateReports : \A i \in DeactivateCalls : i < r
        /\ NoneLeftActive

\* C22, amended: after a failed activation no further game is activated, the
\* error is reported, and deactivate is then invoked for every game of the
\* batch before main returns; if those deactivations succeed no game is left
\* Mounted or Moved.
C22_DeactivateAfterFailure ==
    (batch # <<>> /\ FailedActivation) =>
        /\ NoActivateAfterFailure
        /\ AllDeactivated
        /\ \A r \in ActivateReports : \A i \in DeactivateCalls : r < i
        /\ NoneLeftActive

\* C22 witness: the second game of a batch failed to activate after the first
\* was mounted; both were deactivated and are back to Normal
C22_Witness ==
    /\ batch # <<>> /\ FailedActivation /\ BatchDone /\ DeactivationsSucceeded
    /\ Len(batch[1].disk) = 2
    /\ \E r \in ActivateReports : BatchOut[r].g = 2
    /\ \A g \in BatchGames :
          LET d == batch[1].disk[g] IN DocumentedState(d.o, d.s, d.m) = "Normal"

\* C23: in a batch deactivation, deactivate is invoked for every game of the
\* batch in turn whatever the earlier ones returned, and the error of a game
\* is printed for that game right after its call.
C23_BatchDeactivateContinues ==
    (batch # <<>> /\ batch[1].action = "deactivate") =>
        /\ AllDeactivated
        /\ \A i \in 1..Len(BatchOut) :
              BatchOut[i].kind = "report" =>
                 /\ i > 1 /\ IsDeactivateCall(BatchOut[i - 1])
                 /\ BatchOut[i].op = "deactivate" /\ BatchOut[i].g = BatchOut[i - 1].g
        /\ \A i \in 1..Len(BatchOut) :
              IsDeactivateCall(BatchOut[i]) => BatchOut[i].g \in BatchGames

\* C23 witness: the deactivation of the first game of two failed, it was
\* reported, and the second game was deactivated
C23_Witness ==
    /\ batch # <<>> /\ batch[1].action = "deactivate" /\ BatchDone
    /\ Len(BatchOut) >= 3
    /\ BatchOut[2] = [kind |-> "report", op |-> "deactivate", g |-> 1]
    /\ BatchOut[3] = [kind |-> "call", op |-> "deactivate", g |-> 2]
    /\ LET d == batch[1].disk[2] IN DocumentedState(d.o, d.s, d.m) = "Normal"

----------------------------------------------------------------------------
(* Properties of the frame, of termination and of concurrent invocations *)

\* C31: when Overlay::mount returns and when Game::deactivate returns, with
\* success or with an error, the working directory of the process is the
\* directory remembered at the construction of the Overlay.
C31_CwdRestored ==
    \A i \in 1..Len(calls) :
        calls[i].op \in {"activate", "deactivate"} => calls[i].cwd = ChangeCwd(TRUE)

\* invocation p runs get_current_mounting_state in this step
ProbeStep(p) ==
    /\ proc[p].pc \in {"a_probe1", "a_probe2", "a_probe3", "d_probe1", "d_probe2"}
    /\ lastProbe' # <<>>

\* what one run of get_current_mounting_state may change
ProbeFrame ==
    LET r == lastProbe'[1].out
    IN /\ shadow' = shadow /\ mounted' = mounted /\ orig' = r.o
       /\ orig' # orig =>
             /\ orig = "empty" /\ ~mounted /\ NonEmptyDir(shadow)
             /\ orig' = "absent" /\ r.state = "Moved"
             \* the next run reads Moved again and changes nothing
             /\ \A f \in ProbeFaults :
                   GetCurrentMountingState(orig', shadow', mounted', f)
                      = [state |-> "Moved", kind |-> "none", o |-> orig']
       /\ r.state = "Error" => orig' = orig

\* C32: get_current_mounting_state changes the file system only by removing
\* the original directory when that is empty and no mountpoint and the shadow
\* is a non-empty directory; in every other case, errors included, nothing
\* changes; a run right after the removal reads Moved again and changes
\* nothing.
C32_ProbeFrame == [][\A p \in Procs : ProbeStep(p) => ProbeFrame]_vars

\* C32 witness: in one activate the second probe removed the empty original
\* directory and the third probe, right after, read Moved with nothing to do
C32_Witness ==
    \E p \in Procs :
        /\ proc[p].pc = "a_mkdir" /\ HasEvent(proc[p].trace, "cleanup_rmdir")
        /\ lastProbe # <<>> /\ lastProbe[1].in.o = "absent"
        /\ lastProbe[1].out = [state |-> "Moved", kind |-> "none", o |-> "absent"]

\* C33: whenever Game::deactivate returns Ok the layout is Normal: the
\* original path is no mountpoint and holds the game files and the shadow path
\* does not hold them, also when the unmount helper exits with code 0 and the
\* mount is still there.
C33_DeactivateOkIsNormal ==
    \A i \in 1..Len(calls) :
        (calls[i].op = "deactivate" /\ calls[i].res = "Ok") =>
            /\ ~calls[i].post.m
            /\ NonEmptyDir(calls[i].post.o)
            /\ ~NonEmptyDir(calls[i].post.s)

\* the events of the caller so far
CallerOut == batch[1].out

CallerDid(e) == \E i \in 1..Len(CallerOut) : CallerOut[i].ev = e

\* the deactivate of the loop of setup has returned the in-use error
InUseAnswer ==
    /\ batch[1].phase = "loop" /\ NoneRunning /\ calls # <<>>
    /\ LastCall.res = "Err" /\ LastCall.gerr = "Overlay in use."

\* the step of the loop of setup after a deactivate has returned
SetupLoopStep ==
    (batch[1].phase = "loop" /\ NoneRunning /\ calls # <<>> /\ batch' # batch) =>
        /\ InUseAnswer =>
              /\ batch'[1].phase = "loop" /\ batch'[1].retries = batch[1].retries + 1
              /\ \E p \in Procs : proc'[p].pc = "d_pids" /\ proc'[p].op = "deactivate"
        /\ LastCall.res = "Ok" =>
              /\ batch'[1].phase = "copy"
              /\ DocumentedState(orig, shadow, mounted) = "Normal"
        /\ (LastCall.res # "Ok" /\ ~InUseAnswer) => batch'[1].phase = "error"

\* setup that ended with an error has not copied, and the copy step is
\* made in the state Normal
CopyOnlyAfterOk ==
    /\ (CallerDid("error") \/ batch[1].phase \in {"begin", "activate", "loop"}) =>
          ~CallerDid("copy") /\ ~CallerDid("copy_failed")
    /\ \A i \in 1..Len(CallerOut) :
          CallerOut[i].ev \in {"copy", "copy_failed"} =>
             LET l == CallerOut[i].lay IN DocumentedState(l.o, l.s, l.m) = "Normal"

\* C34: in Game::setup a deactivate that fails with the in-use error is
\* followed by another deactivate, the first Ok by the copy step, made in the
\* state Normal, and any other error ends setup with an error and without the
\* copy; when the in-use answers stop, setup leaves the loop: it reaches the
\* copy step or ends with an error.
C34_RetryOnBusy ==
    /\ [][SetupLoopStep]_vars
    /\ []CopyOnlyAfterOk
    /\ (<>[](~InUseAnswer)) => <>(batch[1].phase \in {"copy", "error"})

\* C34 witness: deactivate was repeated after the in-use error, then
\* succeeded, and the copy step was made
C34_Witness ==
    /\ batch # <<>> /\ batch[1].action = "setup"
    /\ batch[1].retries >= 1 /\ CallerDid("copy")

\* C34 witness: another error of deactivate after a repetition ended setup
C34_WitnessError ==
    /\ batch # <<>> /\ batch[1].action = "setup"
    /\ batch[1].retries >= 1 /\ CallerDid("error") /\ batch[1].phase = "done"

\* the top-level keys of the game configuration that are no set
OtherKeys == gcfg.commands \cup ScalarKeys

\* C35: ModSet::from_config returns for every configuration, cyclic ones
\* included, and the nesting of its calls never exceeds the number of sets of
\* the configuration plus one.
C35_DepthBounded ==
    \A i \in 1..Len(built) :
        /\ built[i].res.kind # "overflow"
        /\ built[i].res.depth <= Cardinality(DOMAIN cfg) + 1

\* a cycle through both sets is refused at the deepest nesting there is
C35_Witness ==
    /\ built # <<>>
    /\ Cyclic(built[1].root)
    /\ built[1].res.kind = "recursion"
    /\ built[1].res.depth = Cardinality(DOMAIN cfg) + 1

RECURSIVE MembersResolved(_, _)
\* in the node built for set id every member that names a set is a child set,
\* and every other member is no key of the game configuration and an
\* existing folder
MembersResolved(id, set) ==
    /\ set.mods = cfg[id]
    /\ \A k \in 1..Len(set.mods) :
          LET name == set.mods[k]
          IN IF name \in DOMAIN cfg
             THEN /\ name \in DOMAIN set.mod_sets
                  /\ MembersResolved(name, set.mod_sets[name])
             ELSE /\ name \notin DOMAIN set.mod_sets
                  /\ name \notin OtherKeys
                  /\ name \in folders

\* the sets that name a key of the game configuration that is no set
NamesOtherKey(S) == \E a \in S : \E k \in 1..Len(cfg[a]) : cfg[a][k] \in OtherKeys

\* C36: a member is a leaf folder only if it is no top-level key of the game
\* configuration; a member that is the name of a set is resolved as that set;
\* a member that is another top-level key, a scalar or the table of a named
\* command, makes the construction fail, also when a folder of that name
\* exists.
C36_MemberResolution ==
    \A i \in 1..Len(built) :
        LET a == built[i].root
            res == built[i].res
        IN /\ res.ok => MembersResolved(a, res.set)
           /\ NamesOtherKey(Reaches(a) \cup {a}) => ~res.ok
           /\ res.kind \in {"nottable", "nomods"} => NamesOtherKey(Reaches(a) \cup {a})

\* the table of the named command is a member, a folder of its name exists
C36_Witness ==
    /\ built # <<>>
    /\ built[1].res.kind = "nomods"
    /\ "c1" \in folders

\* the scalar key is a member, a folder of its name exists
C36_WitnessScalar ==
    /\ built # <<>>
    /\ built[1].res.kind = "nottable"
    /\ "path" \in folders

\* a set and a folder are members of a set that is built
C36_WitnessBuilt ==
    /\ built # <<>>
    /\ built[1].res.ok
    /\ DOMAIN built[1].res.set.mod_sets # {}
    /\ "m1" \in LeavesOf(built[1].res.set)
    /\ "A" \in folders

\* C38: the list returned by get_commands holds no command identity twice,
\* for every tree, also when sibling child sets name the same command.
C38_NoDuplicateCommands ==
    Answered("get_commands") =>
        \A k, l \in 1..Len(answers[1].v) : answers[1].v[k] = answers[1].v[l] => k = l

\* the cleanup phase of deactivate of invocation p has read the runtime
\* directory and gone through its markers
CleanupDone(p) ==
    /\ proc[p].pc = "d_pids"
    /\ proc'[p].pc = "d_probe1"
    /\ proc'[p].seen = runtime

\* C39: after the cleanup phase of deactivate a marker named by a process id
\* remains only for a process that was there when the signal was sent; the
\* marker of a process that had exited before is removed as well.
C39_NoMarkerOfDeadProcess ==
    [][\A p \in Procs :
          CleanupDone(p) =>
              \A f \in runtime' :
                  ParsePid(f) # <<>> => ParsePid(f)[1] \in proc'[p].killed]_vars

\* what wrap and main have done at event i of out
WrapDid(i, ev, res) ==
    /\ i \in 1..Len(CallerOut)
    /\ CallerOut[i].ev = ev
    /\ CallerOut[i].res = res

\* the wrapped command was run only after activate had returned Ok
CommandOnlyAfterOk ==
    \A i \in 1..Len(CallerOut) :
        CallerOut[i].ev = "command" => i = 3 /\ WrapDid(2, "activated", "Ok")

\* once the command of a successful activate is over, deactivate was called
DeactivateAfterCommand ==
    \A i \in 1..Len(CallerOut) :
        CallerOut[i].ev = "command" =>
            i < Len(CallerOut) /\ CallerOut[i + 1].ev = "deactivate"

\* after a failed activate no command is run, and when the program has gone
\* on main has called deactivate
FailedActivateCleansUp ==
    WrapDid(2, "activated", "Err") =>
        /\ \A i \in 1..Len(CallerOut) : CallerOut[i].ev # "command"
        /\ batch[1].phase \in {"cleanup", "done", "aborted"} =>
               WrapDid(3, "main_deactivate", "none")

\* the steps of wrap: after activate the command or the error, after the
\* command the call of deactivate whatever its outcome, after the error the
\* call of deactivate by main
WrapStep ==
    /\ (batch[1].phase = "activate" /\ batch'[1].phase # "activate") =>
          IF LastCall.res = "Ok" THEN batch'[1].phase = "command"
          ELSE batch'[1].phase = "error" /\ LastCall.res = "Err"
    /\ (batch[1].phase = "command" /\ batch' # batch) =>
          /\ batch'[1].phase = "deactivate"
          /\ proc'[1].op = "deactivate" /\ proc'[1].pc = "d_pids"
    /\ (batch[1].phase = "error" /\ batch' # batch) =>
          /\ batch'[1].phase = "cleanup"
          /\ proc'[1].op = "deactivate" /\ proc'[1].pc = "d_pids"

\* C40: Game::wrap runs the wrapped command only after activate returned Ok;
\* after a successful activate it always calls deactivate, whether the
\* command exited with zero, with another status or could not be spawned;
\* when activate fails the command is never run and main calls deactivate.
C40_WrapOrder ==
    /\ [][WrapStep]_vars
    /\ [](CommandOnlyAfterOk /\ DeactivateAfterCommand /\ FailedActivateCleansUp)
    /\ WrapDid(2, "activated", "Ok") ~> WrapDid(4, "deactivate", "none")
    /\ WrapDid(2, "activated", "Err") ~> WrapDid(3, "main_deactivate", "none")

\* the command could not be spawned and deactivate has returned Ok
C40_Witness ==
    /\ WrapDid(2, "activated", "Ok")
    /\ WrapDid(3, "command", "nospawn")
    /\ WrapDid(5, "deactivated", "Ok")
    /\ batch[1].phase = "done"

\* activate failed, main has called deactivate and the program is over
C40_WitnessFailed ==
    /\ WrapDid(2, "activated", "Err")
    /\ WrapDid(3, "main_deactivate", "none")
    /\ batch[1].phase = "done"

\* the deactivate of wrap failed after the command, main calls it once more
C40_WitnessTwice ==
    /\ WrapDid(3, "command", "nonzero")
    /\ WrapDid(5, "deactivated", "Err")
    /\ WrapDid(6, "main_deactivate", "none")

\* the game files are at exactly one of the original and the shadow path
FilesAtOnePath == NonEmptyDir(orig) # NonEmptyDir(shadow)

\* both invocations were started and have returned
BothReturned == batch[1].started = Procs /\ NoneRunning

\* C37: two invocations against the same game, any mix of activate and
\* deactivate, whose probes, renames, directory creations and removals and
\* helper calls interleave: in every state exactly one of the original and
\* the shadow path holds the game files, and when both have returned the
\* layout is Normal, Moved or Mounted.
C37_ConcurrentLayout ==
    /\ FilesAtOnePath
    /\ BothReturned => DocumentedState(orig, shadow, mounted) \in {"Normal", "Moved", "Mounted"}

\* one invocation is about to mount while the other is about to move the
\* game files back
C37_Witness ==
    /\ proc[1].pc = "a_mount"
    /\ proc[2].pc = "d_rename"

\* both have returned: the activate had created the mountpoint and could not
\* mount, because the deactivate had moved the game files back onto it
C37_WitnessReturned ==
    /\ BothReturned
    /\ Len(calls) = 2
    /\ calls[1].op = "deactivate" /\ calls[1].res = "Ok"
    /\ calls[2].op = "activate" /\ calls[2].res = "Err"
    /\ \E i \in 1..Len(calls[2].trace) : calls[2].trace[i] = "mkdir"
    /\ DocumentedState(orig, shadow, mounted) = "Normal"

====
